---- MODULE Spec2Model ----
(***************************************************************************)
(* Verification model of the coaching backend's orchestration core:        *)
(*   - AnalysisService (backend/app/services/analysis_service.py)          *)
(*   - LessonGeneratorService (backend/app/services/lesson_generator.py)   *)
(*   - DocumentService (backend/app/services/document_service.py)          *)
(*   - AIService, the provider gateway (backend/app/services/ai_service.py)*)
(*   - the admin lesson endpoints (backend/app/routers/admin_lessons.py)   *)
(* Python values are modelled as tagged records (JNull, JNum, JStr, JArr,  *)
(* JObj); text is a sequence of tokens, so that fence stripping, JSON      *)
(* decoding and JSON encoding are computed and not assumed.                *)
(***************************************************************************)
EXTENDS Integers, Sequences, FiniteSets, TLC

VARIABLES
    \* ---- analytics run (generate_progress_report) ----
    pc,                 \* position of the analytics request
    db_counts,          \* what the three COUNT queries return
    vector_collection,  \* the user's vector-store collection
    session_stats,      \* dict built by _get_session_stats
    pattern_analysis,   \* dict returned by analyze_user_patterns
    ai_outcome,         \* what ai_service.generate_response did
    ai_insights,        \* result of _generate_ai_insights
    used_fallback,      \* whether _generate_fallback_insights produced ai_insights
    reports,            \* rows of progress_reports
    endpoint_result,    \* how the /progress/generate handler ended
    \* ---- lesson output parser ----
    ppc,                \* position of the parser run
    ai_response,        \* raw model text handed to _parse_lesson_response
    lesson_data,        \* its result (a map or a raised error)
    serialized,         \* json.dumps of a successful result
    reparsed,           \* result of parsing `serialized` again
    \* ---- document ingestion (DocumentService.parse_document) ----
    dpc,                \* position of the parse_document call
    upload,             \* the uploaded file: filename and content
    decoders_invoked,   \* the _parse_* methods called, in call order
    parse_result,       \* what parse_document returned or raised
    \* ---- provider gateway (AIService.generate_response) ----
    gpc,                \* position of the generate_response call
    settings,           \* the three configured API keys
    g_request,          \* arguments of the call
    adapters_run,       \* the _<provider>_response methods entered, in order
    network_calls,      \* the requests handed to a provider client, in order
    g_result,           \* what generate_response returned or raised
    \* ---- admin lesson endpoints ----
    lesson_rows,        \* rows of the lessons table; the id of a row is its index
    l_request,          \* the request being answered
    l_before,           \* the lessons table when the request arrived
    l_context,          \* document context built for the request
    l_service,          \* the LessonGeneratorService call made for the request
    l_response,         \* the HTTP answer
    \* ---- analysis prompt (AnalysisService._generate_ai_insights) ----
    qpc,                \* position of the prompt construction
    recent_messages,    \* what _get_recent_user_messages returned, newest first
    sample_lines,       \* the lines under "Sample Recent Messages:"
    \* ---- chat endpoints ----
    chat_sessions,      \* rows of chat_sessions, by id
    chat_messages,      \* rows of messages, in created_at order
    vector_docs,        \* documents of the vector store
    chat_calls,         \* the send_message calls in progress, by call
    provider_requests,  \* the message lists handed to the provider, in order
    chat_answer,        \* the answer of the last session operation
    \* ---- team membership ----
    user_teams,         \* rows of the user_teams association table
    team_calls          \* the add_team_member calls, by call

analyticsVars == <<pc, db_counts, vector_collection, session_stats, pattern_analysis,
                   ai_outcome, ai_insights, used_fallback, reports, endpoint_result>>
parserVars == <<ppc, ai_response, lesson_data, serialized, reparsed>>
docVars == <<dpc, upload, decoders_invoked, parse_result>>
gatewayVars == <<gpc, settings, g_request, adapters_run, network_calls, g_result>>
lessonVars == <<lesson_rows, l_request, l_before, l_context, l_service, l_response>>
promptVars == <<qpc, recent_messages, sample_lines>>
chatVars == <<chat_sessions, chat_messages, vector_docs, chat_calls, provider_requests,
              chat_answer>>
teamVars == <<user_teams, team_calls>>
vars == <<analyticsVars, parserVars, docVars, gatewayVars, lessonVars, promptVars,
          chatVars, teamVars>>

-----------------------------------------------------------------------------
(* Bounds of the model *)
MaxSessions == 9
MaxLessons == 4
MaxMessages == 11
MaxListLen == 4

-----------------------------------------------------------------------------
(* Python / JSON values *)
None == [k |-> "null"]
JNum(n) == [k |-> "num", n |-> n]
JStr(w) == [k |-> "str", words |-> w]
JArr(items) == [k |-> "arr", items |-> items]
JObj(members) == [k |-> "obj", members |-> members]
Member(key, val) == [key |-> key, val |-> val]

Range(s) == {s[i] : i \in 1..Len(s)}
Keys(d) == {d.members[i].key : i \in 1..Len(d.members)}
\* d[key] of a dict that holds key
GetItem(d, key) == d.members[CHOOSE i \in 1..Len(d.members) : d.members[i].key = key].val
\* dict equality: same keys, same values, whatever the insertion order
DictEq(a, b) == /\ a.k = "obj" /\ b.k = "obj"
                /\ Keys(a) = Keys(b)
                /\ \A key \in Keys(a) : GetItem(a, key) = GetItem(b, key)

Min(a, b) == IF a < b THEN a ELSE b

-----------------------------------------------------------------------------
(* Text: a string is a sequence of tokens *)
Fence == [t |-> "fence"]       \* the three characters ```
JsonTag == [t |-> "json"]      \* the four characters json
Ws == [t |-> "ws"]             \* blanks and line breaks
Junk == [t |-> "junk"]         \* characters that are no JSON
Doc(v) == [t |-> "doc", v |-> v]   \* one JSON document, written with value v

StartsWith(s, prefix) == Len(s) >= Len(prefix) /\ SubSeq(s, 1, Len(prefix)) = prefix
EndsWith(s, suffix) ==
    Len(s) >= Len(suffix) /\ SubSeq(s, Len(s) - Len(suffix) + 1, Len(s)) = suffix
DropFirst(s, n) == SubSeq(s, Min(n, Len(s)) + 1, Len(s))
DropLast(s, n) == SubSeq(s, 1, Len(s) - Min(n, Len(s)))

RECURSIVE LStrip(_)
LStrip(s) == IF s # <<>> /\ Head(s) = Ws THEN LStrip(Tail(s)) ELSE s
RECURSIVE RStrip(_)
RStrip(s) == IF s # <<>> /\ s[Len(s)] = Ws THEN RStrip(DropLast(s, 1)) ELSE s
\* str.strip()
Strip(s) == RStrip(LStrip(s))

\* The dict the JSON decoder builds from an object's members in text order:
\* a repeated key keeps its first position and takes its last value.
RECURSIVE DecodeMembers(_, _)
DecodeMembers(ms, acc) ==
    IF ms = <<>> THEN acc
    ELSE LET m == Head(ms)
             seen == \E i \in 1..Len(acc) : acc[i].key = m.key
             acc2 == IF seen
                     THEN [i \in 1..Len(acc) |-> IF acc[i].key = m.key THEN m ELSE acc[i]]
                     ELSE Append(acc, m)
         IN DecodeMembers(Tail(ms), acc2)

RECURSIVE Decode(_)
Decode(v) ==
    IF v.k = "obj"
    THEN LET ms == DecodeMembers(v.members, <<>>)
         IN JObj([i \in 1..Len(ms) |-> Member(ms[i].key, Decode(ms[i].val))])
    ELSE IF v.k = "arr"
    THEN JArr([i \in 1..Len(v.items) |-> Decode(v.items[i])])
    ELSE v

\* json.loads: blanks around the document are skipped, anything else is an error
\* that carries the text it was given.
JsonLoads(text) ==
    LET body == Strip(text)
    IN IF Len(body) = 1 /\ body[1].t = "doc"
       THEN [tag |-> "ok", value |-> Decode(body[1].v)]
       ELSE [tag |-> "raise", exc |-> "JSONDecodeError", doc |-> text]

\* json.dumps: one document, members in insertion order
JsonDumps(value) == <<Doc(value)>>

-----------------------------------------------------------------------------
(* AnalysisService *)

\* A float that is a quotient of two counters, kept exact
Ratio(num, den) == [num |-> num, den |-> den]
Zero == Ratio(0, 1)
\* r > n for a ratio r with positive denominator and an integer n
RatioGt(r, n) == r.num > n * r.den
\* a <= b for ratios with positive denominators
RatioLeq(a, b) == a.num * b.den <= b.num * a.den

\* _get_session_stats: three COUNT queries, then the average
get_session_stats(counts) ==
    [total_sessions |-> counts.sessions,
     lessons_completed |-> counts.completed,
     total_messages |-> counts.messages,
     avg_session_messages |->
        IF counts.sessions > 0 THEN Ratio(counts.messages, counts.sessions) ELSE Zero]

\* VectorService.analyze_user_patterns over the user's collection: coll.fails is the
\* vector store raising, coll.count the number of stored user messages, coll.total_len
\* the sum of their lengths, coll.business / coll.leadership the keyword hits.
analyze_user_patterns(coll) ==
    IF coll.fails THEN [error |-> "vector store error"]
    ELSE IF coll.count = 0
    THEN [message_count |-> 0, insights |-> "Not enough data for analysis"]
    ELSE [message_count |-> coll.count,
          avg_message_length |-> Ratio(coll.total_len, coll.count),
          business_focus |-> Ratio(coll.business, coll.count),
          leadership_focus |-> Ratio(coll.leadership, coll.count),
          insights |-> "Analyzed messages"]

\* dict.get(key, default) on a pattern summary
PatternGet(p, key, default) == IF key \in DOMAIN p THEN p[key] ELSE default

\* QualityPoints with the upper threshold inclusive (>= 50 for > 50)
QualityPointsInclusive(avg_length) ==
    IF avg_length.num >= 50 * avg_length.den THEN 10
    ELSE IF RatioGt(avg_length, 20) THEN 5
    ELSE 0

\* QualityPoints with the two awards exchanged
QualityPointsSwapped(avg_length) ==
    IF RatioGt(avg_length, 50) THEN 5
    ELSE IF RatioGt(avg_length, 20) THEN 10
    ELSE 0

\* message-quality component of the score
QualityPoints(avg_length) ==
    IF RatioGt(avg_length, 50) THEN 10
    ELSE IF RatioGt(avg_length, 20) THEN 5
    ELSE 0

\* _calculate_engagement_score with the caps and the final clamp left out
calculate_engagement_score_uncapped(stats, pattern) ==
    stats.total_sessions * 5 + stats.lessons_completed * 10 + stats.total_messages * 2
    + PatternGet(pattern, "avg_message_length", Zero).num
        \div PatternGet(pattern, "avg_message_length", Zero).den

\* _calculate_engagement_score
calculate_engagement_score(stats, pattern) ==
    LET s1 == 0 + Min(stats.total_sessions * 5, 40)
        s2 == s1 + Min(stats.lessons_completed * 10, 30)
        s3 == s2 + Min(stats.total_messages * 2, 20)
        s4 == s3 + QualityPoints(PatternGet(pattern, "avg_message_length", Zero))
    IN Min(s4, 100)

StrList(ws) == JArr([i \in 1..Len(ws) |-> JStr(<<ws[i]>>)])

StatsKeys == {"total_sessions", "lessons_completed", "total_messages"}

\* _generate_fallback_insights whose summary also reports lessons per session, a
\* division that raises when there is no session
generate_fallback_insights_rate(stats, pattern) ==
    IF stats.total_sessions = 0
    THEN [tag |-> "raise", exc |-> "ZeroDivisionError"]
    ELSE [tag |-> "ok", value |-> JObj(<<
        Member("summary", JStr(<<"User completed",
                                 ToString(stats.lessons_completed \div stats.total_sessions),
                                 "lessons per session">>)),
        Member("strengths", StrList(<<"Consistent engagement with the platform",
                                      "Active participation in coaching sessions",
                                      "Willingness to learn and develop">>)),
        Member("areas_for_improvement",
               StrList(<<"Increase session frequency for better retention",
                         "Complete more structured lessons",
                         "Engage with more diverse topics">>)),
        Member("recommendations", StrList(<<"Set aside regular time for coaching sessions",
                                            "Focus on completing lesson objectives",
                                            "Explore new coaching areas to broaden skills">>)),
        Member("detailed_analysis", JObj(<<>>))>>)]

\* _generate_fallback_insights: reads three counters of session_stats (a KeyError when
\* one is absent) and never reads pattern_analysis.
generate_fallback_insights(stats, pattern) ==
    IF ~(StatsKeys \subseteq DOMAIN stats)
    THEN [tag |-> "raise", exc |-> "KeyError"]
    ELSE [tag |-> "ok", value |-> JObj(<<
        Member("summary", JStr(<<"User completed", ToString(stats.lessons_completed),
                                 "lessons across", ToString(stats.total_sessions),
                                 "sessions with", ToString(stats.total_messages),
                                 "total interactions">>)),
        Member("strengths", StrList(<<"Consistent engagement with the platform",
                                      "Active participation in coaching sessions",
                                      "Willingness to learn and develop">>)),
        Member("areas_for_improvement",
               StrList(<<"Increase session frequency for better retention",
                         "Complete more structured lessons",
                         "Engage with more diverse topics">>)),
        Member("recommendations", StrList(<<"Set aside regular time for coaching sessions",
                                            "Focus on completing lesson objectives",
                                            "Explore new coaching areas to broaden skills">>)),
        Member("detailed_analysis", JObj(<<
            Member("engagement_level", JStr(<<"moderate">>)),
            Member("learning_pace", JStr(<<"steady">>)),
            Member("focus_areas", StrList(<<"general development">>))>>))>>)]

\* _generate_ai_insights. outcome is what ai_service.generate_response did: it raised,
\* or it returned a response whose content is a text. Any exception of the provider
\* call is caught and answered by the fallback; so is text json.loads rejects; a
\* decoded value is returned as it is.
generate_ai_insights(stats, pattern, outcome) ==
    IF outcome.raised
    THEN generate_fallback_insights(stats, pattern) @@ [fallback |-> TRUE]
    ELSE LET decoded == JsonLoads(outcome.content)
         IN IF decoded.tag = "raise"
            THEN generate_fallback_insights(stats, pattern) @@ [fallback |-> TRUE]
            ELSE [tag |-> "ok", value |-> decoded.value, fallback |-> FALSE]

\* ai_insights[key] as Python evaluates it
Subscript(v, key) ==
    IF v.k = "obj"
    THEN IF key \in Keys(v) THEN [tag |-> "ok", value |-> GetItem(v, key)]
         ELSE [tag |-> "raise", exc |-> "KeyError"]
    ELSE [tag |-> "raise", exc |-> "TypeError"]

InsightFields ==
    <<"detailed_analysis", "summary", "strengths", "areas_for_improvement", "recommendations">>

\* The ProgressReport(...) constructor call of generate_progress_report: the five
\* subscripts are evaluated first, in this order, and the first that raises ends it.
BuildReport(insights, stats, pattern) ==
    LET bad == {i \in 1..Len(InsightFields) : Subscript(insights, InsightFields[i]).tag = "raise"}
    IN IF bad # {}
       THEN LET first == CHOOSE i \in bad : \A j \in bad : i <= j
            IN [tag |-> "raise", exc |-> Subscript(insights, InsightFields[first]).exc]
       ELSE [tag |-> "ok", value |->
               [analysis |-> GetItem(insights, "detailed_analysis"),
                summary |-> GetItem(insights, "summary"),
                strengths |-> GetItem(insights, "strengths"),
                areas_for_improvement |-> GetItem(insights, "areas_for_improvement"),
                recommendations |-> GetItem(insights, "recommendations"),
                total_sessions |-> stats.total_sessions,
                total_messages |-> stats.total_messages,
                lessons_completed |-> stats.lessons_completed,
                engagement_score |-> calculate_engagement_score(stats, pattern)]]

-----------------------------------------------------------------------------
(* Inputs of an analytics run *)

\* Collections whose average message length lies on, between and beyond the two
\* thresholds of the score: 0, 20, 20.5, 21, 50, 50.5, 51, 60
LengthSamples == {<<0, 1>>, <<20, 1>>, <<41, 2>>, <<21, 1>>, <<50, 1>>, <<101, 2>>,
                  <<51, 1>>, <<60, 1>>}
Collections ==
    {[fails |-> TRUE, count |-> 0, total_len |-> 0, business |-> 0, leadership |-> 0],
     [fails |-> FALSE, count |-> 0, total_len |-> 0, business |-> 0, leadership |-> 0]}
    \cup {[fails |-> FALSE, count |-> x[2], total_len |-> x[1], business |-> x[2],
           leadership |-> 0] : x \in LengthSamples}

DbCounts == [sessions : 0..MaxSessions, completed : 0..MaxLessons, messages : 0..MaxMessages]

Items(n) == JArr([i \in 1..n |-> JStr(<<"item">>)])
InsightKeys == {"summary", "strengths", "areas_for_improvement", "recommendations",
                "detailed_analysis"}
ListKeys == {"strengths", "areas_for_improvement", "recommendations"}

\* The JSON object the analysis prompt asks for, with n items in the list under
\* `vary` and three items in the other lists, and without the key `drop`
InsightDoc(vary, n, drop) ==
    LET all == <<Member("summary", JStr(<<"good progress">>)),
                 Member("strengths", Items(IF vary = "strengths" THEN n ELSE 3)),
                 Member("areas_for_improvement",
                        Items(IF vary = "areas_for_improvement" THEN n ELSE 3)),
                 Member("recommendations", Items(IF vary = "recommendations" THEN n ELSE 3)),
                 Member("detailed_analysis", JObj(<<Member("pace", JStr(<<"steady">>))>>))>>
    IN JObj(SelectSeq(all, LAMBDA m : m.key # drop))

InsightDocs ==
    {InsightDoc(vary, n, "") : vary \in ListKeys, n \in 0..MaxListLen}
    \cup {InsightDoc("strengths", 3, drop) : drop \in InsightKeys}
    \cup {JObj(<<>>), JArr(<<>>), Items(3), JStr(<<"summary">>), JNum(1), None}

\* What ai_service.generate_response can do for the analysis prompt
ModelOutcomes ==
    {[raised |-> TRUE, content |-> <<>>]}
    \cup {[raised |-> FALSE, content |-> <<Doc(d)>>] : d \in InsightDocs}
    \cup {[raised |-> FALSE, content |-> c] : c \in
            {<<>>, <<Junk>>, <<Junk, Doc(InsightDoc("strengths", 3, ""))>>,
             <<Ws, Doc(InsightDoc("strengths", 3, "")), Ws>>,
             <<Fence, JsonTag, Ws, Doc(InsightDoc("strengths", 3, "")), Ws, Fence>>,
             <<Fence, Ws, Doc(InsightDoc("strengths", 3, "")), Ws, Fence>>}}

-----------------------------------------------------------------------------
(* generate_progress_report, one step per awaited call *)

ParserIdle ==
    /\ ppc = "idle" /\ ai_response = <<>> /\ lesson_data = None
    /\ serialized = <<>> /\ reparsed = None

DocumentsIdle ==
    /\ dpc = "idle" /\ upload = None /\ decoders_invoked = <<>> /\ parse_result = None

GatewayIdle ==
    /\ gpc = "idle" /\ settings = None /\ g_request = None /\ adapters_run = <<>>
    /\ network_calls = <<>> /\ g_result = None

PromptIdle == qpc = "idle" /\ recent_messages = <<>> /\ sample_lines = <<>>

ChatIdle ==
    /\ chat_sessions = <<>> /\ chat_messages = <<>> /\ vector_docs = {}
    /\ chat_calls = <<>> /\ provider_requests = <<>> /\ chat_answer = None

TeamsIdle == user_teams = <<>> /\ team_calls = <<>>

LessonsIdle ==
    /\ lesson_rows = <<>> /\ l_request = None /\ l_before = <<>> /\ l_context = <<>>
    /\ l_service = None /\ l_response = None

AnalyticsInit ==
    /\ pc = "start"
    /\ db_counts \in DbCounts
    /\ vector_collection \in Collections
    /\ session_stats = None
    /\ pattern_analysis = None
    /\ ai_outcome = None
    /\ ai_insights = None
    /\ used_fallback = FALSE
    /\ reports = <<>>
    /\ endpoint_result = "pending"
    /\ ParserIdle /\ DocumentsIdle /\ GatewayIdle /\ LessonsIdle
    /\ PromptIdle /\ ChatIdle /\ TeamsIdle

GetSessionStats ==
    /\ pc = "start"
    /\ session_stats' = get_session_stats(db_counts)
    /\ pc' = "patterns"
    /\ UNCHANGED <<db_counts, vector_collection, pattern_analysis, ai_outcome, ai_insights,
                   used_fallback, reports, endpoint_result, parserVars, docVars,
                   gatewayVars, lessonVars, promptVars, chatVars, teamVars>>

AnalyzeUserPatterns ==
    /\ pc = "patterns"
    /\ pattern_analysis' = analyze_user_patterns(vector_collection)
    /\ pc' = "insights"
    /\ UNCHANGED <<db_counts, vector_collection, session_stats, ai_outcome, ai_insights,
                   used_fallback, reports, endpoint_result, parserVars, docVars,
                   gatewayVars, lessonVars, promptVars, chatVars, teamVars>>

GenerateAIInsights ==
    /\ pc = "insights"
    /\ \E outcome \in ModelOutcomes :
        LET r == generate_ai_insights(session_stats, pattern_analysis, outcome)
        IN /\ ai_outcome' = outcome
           /\ IF r.tag = "ok"
              THEN /\ ai_insights' = r.value
                   /\ used_fallback' = r.fallback
                   /\ pc' = "create"
                   /\ UNCHANGED endpoint_result
              ELSE /\ pc' = "failed"
                   /\ endpoint_result' = "error 500"
                   /\ UNCHANGED <<ai_insights, used_fallback, promptVars, chatVars, teamVars>>
    /\ UNCHANGED <<db_counts, vector_collection, session_stats, pattern_analysis, reports,
                   parserVars, docVars, gatewayVars, lessonVars, promptVars, chatVars, teamVars>>

\* ProgressReport(...), db.add, db.commit; an exception reaches the router, which
\* answers 500 and stores nothing.
CreateReport ==
    /\ pc = "create"
    /\ LET r == BuildReport(ai_insights, session_stats, pattern_analysis)
       IN IF r.tag = "ok"
          THEN /\ reports' = Append(reports, r.value)
               /\ pc' = "done"
               /\ endpoint_result' = "report returned"
          ELSE /\ pc' = "failed"
               /\ endpoint_result' = "error 500"
               /\ UNCHANGED reports
    /\ UNCHANGED <<db_counts, vector_collection, session_stats, pattern_analysis, ai_outcome,
                   ai_insights, used_fallback, parserVars, docVars, gatewayVars, lessonVars,
                   promptVars, chatVars, teamVars>>

AnalyticsNext == GetSessionStats \/ AnalyzeUserPatterns \/ GenerateAIInsights \/ CreateReport

SpecAnalytics == AnalyticsInit /\ [][AnalyticsNext]_vars

-----------------------------------------------------------------------------
(* LessonGeneratorService._parse_lesson_response *)

\* The opening fence test with the shorter marker tried first, so that ```json
\* loses only its three backticks
StripOpeningFenceShortFirst(s) ==
    IF StartsWith(s, <<Fence>>) THEN DropFirst(s, 1)
    ELSE IF StartsWith(s, <<Fence, JsonTag>>) THEN DropFirst(s, 2)
    ELSE s

\* if startswith("```json"): [7:]  elif startswith("```"): [3:]
StripOpeningFence(s) ==
    IF StartsWith(s, <<Fence, JsonTag>>) THEN DropFirst(s, 2)
    ELSE IF StartsWith(s, <<Fence>>) THEN DropFirst(s, 1)
    ELSE s

\* The closing cut without its endswith test
StripClosingFenceAlways(s) == DropLast(s, 1)

\* if endswith("```"): [:-3]
StripClosingFence(s) == IF EndsWith(s, <<Fence>>) THEN DropLast(s, 1) ELSE s

\* strip, opening fence, closing fence, strip
CleanResponse(ai_text) == Strip(StripClosingFence(StripOpeningFence(Strip(ai_text))))

\* The required list without its last entry
RequiredFieldsShort == <<"title", "description", "scenario", "objectives">>

RequiredFields == <<"title", "description", "scenario", "objectives", "content">>

DefaultDifficulty == 2
DefaultDuration == 30
\* the defaults without the one for tags
DefaultsWithoutTags == <<Member("difficulty_level", JNum(DefaultDifficulty)),
                         Member("estimated_duration", JNum(DefaultDuration))>>

Defaults == <<Member("difficulty_level", JNum(DefaultDifficulty)),
              Member("estimated_duration", JNum(DefaultDuration)),
              Member("tags", JArr(<<>>))>>

\* `field not in lesson_data` is a key test on a dict, an element test on a list, a
\* substring test on a string and a TypeError on anything else
Contains(v, field) ==
    IF v.k = "obj" THEN [tag |-> "ok", value |-> field \in Keys(v)]
    ELSE IF v.k = "arr" THEN [tag |-> "ok", value |-> JStr(<<field>>) \in Range(v.items)]
    ELSE IF v.k = "str" THEN [tag |-> "ok", value |-> field \in Range(v.words)]
    ELSE [tag |-> "raise", exc |-> "TypeError"]

\* The loop over required_fields: the first field that is absent (or cannot be
\* tested) ends it
RECURSIVE CheckRequired(_, _)
CheckRequired(v, fields) ==
    IF fields = <<>> THEN [tag |-> "ok"]
    ELSE LET c == Contains(v, Head(fields))
         IN IF c.tag = "raise" THEN [tag |-> "raise", cause |-> [exc |-> c.exc]]
            ELSE IF ~c.value
            THEN [tag |-> "raise",
                  cause |-> [exc |-> "ValueError", msg |-> "Missing required field",
                             field |-> Head(fields)]]
            ELSE CheckRequired(v, Tail(fields))

\* Three assignments in place of the three setdefault calls
RECURSIVE AssignDefaults(_, _)
AssignDefaults(d, defaults) ==
    IF defaults = <<>> THEN d
    ELSE LET m == Head(defaults)
             d2 == IF m.key \in Keys(d)
                   THEN JObj([i \in 1..Len(d.members) |->
                                IF d.members[i].key = m.key THEN m ELSE d.members[i]])
                   ELSE JObj(Append(d.members, m))
         IN AssignDefaults(d2, Tail(defaults))

\* dict.setdefault for each default in turn: a key that is present keeps its value
RECURSIVE SetDefaults(_, _)
SetDefaults(d, defaults) ==
    IF defaults = <<>> THEN d
    ELSE LET m == Head(defaults)
             d2 == IF m.key \in Keys(d) THEN d ELSE JObj(Append(d.members, m))
         IN SetDefaults(d2, Tail(defaults))

\* _parse_lesson_response: every failure leaves as a ValueError
parse_lesson_response(ai_text) ==
    LET decoded == JsonLoads(CleanResponse(ai_text))
    IN IF decoded.tag = "raise"
       THEN [tag |-> "raise", exc |-> "ValueError", msg |-> "AI response was not valid JSON",
             cause |-> [exc |-> decoded.exc, doc |-> decoded.doc]]
       ELSE LET req == CheckRequired(decoded.value, RequiredFields)
            IN IF req.tag = "raise"
               THEN [tag |-> "raise", exc |-> "ValueError",
                     msg |-> "Failed to parse lesson data", cause |-> req.cause]
               ELSE IF decoded.value.k # "obj"
               THEN [tag |-> "raise", exc |-> "ValueError",
                     msg |-> "Failed to parse lesson data",
                     cause |-> [exc |-> "AttributeError"]]
               ELSE [tag |-> "ok", value |-> SetDefaults(decoded.value, Defaults)]

-----------------------------------------------------------------------------
(* Inputs of the lesson parser *)

MaxPad == 1

Pad(n) == [i \in 1..n |-> Ws]

Present(key, val) == <<Member(key, val)>>
Absent == <<>>

\* What the model may write for each optional field: nothing, or a value that is not
\* the default
DifficultyChoices == {Absent, Present("difficulty_level", JNum(4)),
                      Present("difficulty_level", None)}
DurationChoices == {Absent, Present("estimated_duration", JNum(45))}
TagsChoices == {Absent, Present("tags", StrList(<<"sales">>))}

\* The five fields the generation prompt's schema always lists, in its order
SchemaFields == <<"title", "description", "scenario", "objectives", "content">>

RequiredValue(key) ==
    IF key = "objectives" THEN StrList(<<"objective 1">>)
    ELSE IF key = "content" THEN JObj(<<Member("introduction", JStr(<<"intro">>))>>)
    ELSE JStr(<<key, "text">>)

\* The members for the required fields in `have`, in the order of the schema
RequiredMembers(have) ==
    LET all == [i \in 1..Len(SchemaFields) |->
                   Member(SchemaFields[i], RequiredValue(SchemaFields[i]))]
    IN SelectSeq(all, LAMBDA m : m.key \in have)

FullLesson == RequiredMembers(Range(SchemaFields))

LessonObjects ==
    {JObj(RequiredMembers(have) \o d \o e \o t) :
        have \in SUBSET Range(SchemaFields),
        d \in DifficultyChoices, e \in DurationChoices, t \in TagsChoices}

\* Documents with a repeated key, with the optional fields first, with a key outside
\* the schema, and JSON values that are no object
OddDocuments ==
    {JObj(FullLesson \o <<Member("title", JStr(<<"second title">>))>>),
     JObj(<<Member("difficulty_level", JNum(5))>> \o FullLesson
          \o <<Member("difficulty_level", JNum(1))>>),
     JObj(<<Member("tags", StrList(<<"a", "b">>))>> \o FullLesson),
     JObj(FullLesson \o <<Member("notes", JStr(<<"extra">>))>>),
     JObj(<<Member("title", None)>> \o Tail(FullLesson)),
     JArr(<<>>),
     StrList(SchemaFields),
     JStr(SchemaFields),
     JStr(<<"hello">>),
     JNum(7),
     None}

LessonDocuments == LessonObjects \cup OddDocuments

\* What may stand between the fences: one document, or text that is no single document
Bodies ==
    {<<Doc(d)>> : d \in LessonDocuments}
    \cup {<<>>, <<Junk>>, <<JsonTag, Doc(JObj(FullLesson))>>,
          <<Doc(JObj(FullLesson)), Junk>>,
          <<Doc(JObj(FullLesson)), Ws, Doc(JObj(FullLesson))>>,
          <<Fence, Doc(JObj(FullLesson)), Fence>>,
          <<Doc(JObj(FullLesson)), Fence>>}

Openings == {<<>>, <<Fence>>, <<Fence, JsonTag>>}
Closings == {<<>>, <<Fence>>}

ModelTexts ==
    {Pad(lead) \o open \o Pad(inner) \o body \o Pad(inner) \o close \o Pad(trail) :
        lead \in 0..MaxPad, open \in Openings, inner \in 0..MaxPad, body \in Bodies,
        close \in Closings, trail \in 0..MaxPad}

-----------------------------------------------------------------------------
(* One run of the parser, and a second run on its own serialized result *)

AnalyticsIdle ==
    /\ pc = "idle" /\ db_counts = None /\ vector_collection = None
    /\ session_stats = None /\ pattern_analysis = None /\ ai_outcome = None
    /\ ai_insights = None /\ used_fallback = FALSE /\ reports = <<>>
    /\ endpoint_result = "idle"

ParserInit ==
    /\ ppc = "received"
    /\ ai_response \in ModelTexts
    /\ lesson_data = None
    /\ serialized = <<>>
    /\ reparsed = None
    /\ AnalyticsIdle /\ DocumentsIdle /\ GatewayIdle /\ LessonsIdle
    /\ PromptIdle /\ ChatIdle /\ TeamsIdle

\* lesson_data = self._parse_lesson_response(response["content"])
ParseLessonResponse ==
    /\ ppc = "received"
    /\ lesson_data' = parse_lesson_response(ai_response)
    /\ ppc' = "parsed"
    /\ UNCHANGED <<ai_response, serialized, reparsed, analyticsVars, docVars,
                   gatewayVars, lessonVars, promptVars, chatVars, teamVars>>

\* json.dumps(lesson_data, indent=2) of a returned map
SerializeLesson ==
    /\ ppc = "parsed"
    /\ lesson_data.tag = "ok"
    /\ serialized' = JsonDumps(lesson_data.value)
    /\ ppc' = "serialized"
    /\ UNCHANGED <<ai_response, lesson_data, reparsed, analyticsVars, docVars,
                   gatewayVars, lessonVars, promptVars, chatVars, teamVars>>

ParseSerialized ==
    /\ ppc = "serialized"
    /\ reparsed' = parse_lesson_response(serialized)
    /\ ppc' = "reparsed"
    /\ UNCHANGED <<ai_response, lesson_data, serialized, analyticsVars, docVars,
                   gatewayVars, lessonVars, promptVars, chatVars, teamVars>>

ParserNext == ParseLessonResponse \/ SerializeLesson \/ ParseSerialized

SpecParser == ParserInit /\ [][ParserNext]_vars

-----------------------------------------------------------------------------
(* Claims about the analytics engine, checked under SpecAnalytics *)

\* session_stats and pattern_analysis are set and stay as they are from here on
StatsKnown == pc = "insights"
CurrentScore == calculate_engagement_score(session_stats, pattern_analysis)
CurrentAvg == PatternGet(pattern_analysis, "avg_message_length", Zero)

\* C1: for all non-negative counters and every pattern summary, with or without an
\* avg_message_length key, the engagement score lies in [0,100]; so does the score of
\* every stored report.
C1_ScoreBounded ==
    /\ StatsKnown => (CurrentScore >= 0 /\ CurrentScore <= 100)
    /\ \A i \in 1..Len(reports) :
          reports[i].engagement_score >= 0 /\ reports[i].engagement_score <= 100

\* C1 witness: a report was stored from a pattern summary without avg_message_length
\* and with every counter beyond its cap.
C1_Witness ==
    /\ pc = "done"
    /\ "avg_message_length" \notin DOMAIN pattern_analysis
    /\ session_stats.total_sessions > 8
    /\ session_stats.lessons_completed > 3
    /\ session_stats.total_messages > 10
    /\ reports[1].engagement_score = 90

\* The score as the specification states it
StatedScore(sessions, lessons, messages, avg) ==
    Min(sessions * 5, 40) + Min(lessons * 10, 30) + Min(messages * 2, 20)
    + (IF avg.num > 50 * avg.den THEN 10
       ELSE IF avg.num > 20 * avg.den /\ avg.num <= 50 * avg.den THEN 5
       ELSE 0)

\* C2: the score is min(sessions*5,40) + min(lessons*10,30) + min(messages*2,20) + q
\* with q = 10 above 50, 5 above 20 and up to 50, 0 otherwise; sessions 8, lessons 3,
\* messages 10 and average length 60 give 100.
C2_ScoreFormula ==
    /\ StatsKnown =>
          CurrentScore = StatedScore(session_stats.total_sessions,
                                     session_stats.lessons_completed,
                                     session_stats.total_messages, CurrentAvg)
    /\ (/\ StatsKnown
        /\ session_stats.total_sessions = 8 /\ session_stats.lessons_completed = 3
        /\ session_stats.total_messages = 10 /\ CurrentAvg = Ratio(60, 1))
       => CurrentScore = 100
    /\ (StatsKnown /\ CurrentAvg = Ratio(50, 1) /\ db_counts.sessions = 0
        /\ db_counts.completed = 0 /\ db_counts.messages = 0)
       => CurrentScore = 5
    /\ (StatsKnown /\ CurrentAvg = Ratio(20, 1) /\ db_counts.sessions = 0
        /\ db_counts.completed = 0 /\ db_counts.messages = 0)
       => CurrentScore = 0
    /\ \A i \in 1..Len(reports) :
          reports[i].engagement_score =
              StatedScore(reports[i].total_sessions, reports[i].lessons_completed,
                          reports[i].total_messages, CurrentAvg)

\* C2 witness: the boundary case of the specification was scored and stored as 100.
C2_Witness ==
    /\ pc = "done"
    /\ session_stats.total_sessions = 8 /\ session_stats.lessons_completed = 3
    /\ session_stats.total_messages = 10 /\ CurrentAvg = Ratio(60, 1)
    /\ reports[1].engagement_score = 100

\* C3: raising any one of total_sessions, lessons_completed, total_messages or
\* avg_message_length, the other three fixed, never lowers the score.
C3_ScoreMonotonic ==
    StatsKnown =>
        /\ \A n \in 0..MaxSessions : n >= session_stats.total_sessions =>
              calculate_engagement_score([session_stats EXCEPT !.total_sessions = n],
                                         pattern_analysis) >= CurrentScore
        /\ \A n \in 0..MaxLessons : n >= session_stats.lessons_completed =>
              calculate_engagement_score([session_stats EXCEPT !.lessons_completed = n],
                                         pattern_analysis) >= CurrentScore
        /\ \A n \in 0..MaxMessages : n >= session_stats.total_messages =>
              calculate_engagement_score([session_stats EXCEPT !.total_messages = n],
                                         pattern_analysis) >= CurrentScore
        /\ \A x \in LengthSamples : RatioLeq(CurrentAvg, Ratio(x[1], x[2])) =>
              calculate_engagement_score(session_stats,
                                         [avg_message_length |-> Ratio(x[1], x[2])])
                  >= CurrentScore

\* C3 witness: a run whose average length earns the middle award and whose counters are
\* all below their caps, so that every input can still be raised.
C3_Witness ==
    /\ StatsKnown
    /\ CurrentAvg = Ratio(41, 2)
    /\ session_stats.total_sessions = 1 /\ session_stats.lessons_completed = 1
    /\ session_stats.total_messages = 1
    /\ CurrentScore = 22

AllFields(report) ==
    {"analysis", "summary", "strengths", "areas_for_improvement", "recommendations"}
        \subseteq DOMAIN report

\* C4: whatever the model does (raises, answers text that is no JSON, fenced JSON, or
\* JSON that lacks one of the five insight keys), the run ends with a stored
\* ProgressReport that has all five insight fields.
C4_ReportNeverBlocked ==
    pc \in {"done", "failed"} =>
        /\ pc = "done"
        /\ Len(reports) = 1
        /\ AllFields(reports[1])

ThreeItems(v) == v.k = "arr" /\ Len(v.items) = 3

\* C5: every stored ProgressReport has exactly three strengths, three areas for
\* improvement and three recommendations.
C5_ThreeItemLists ==
    \A i \in 1..Len(reports) :
        /\ ThreeItems(reports[i].strengths)
        /\ ThreeItems(reports[i].areas_for_improvement)
        /\ ThreeItems(reports[i].recommendations)

FallbackNow == generate_fallback_insights(session_stats, pattern_analysis)

\* C6: the fallback generator never raises and returns a summary, a detailed analysis
\* and exactly three strengths, areas for improvement and recommendations, for every
\* combination of counters and every pattern summary; insights that came from the
\* fallback have that shape.
C6_FallbackShape ==
    /\ StatsKnown =>
          /\ FallbackNow.tag = "ok"
          /\ Keys(FallbackNow.value) = InsightKeys
          /\ \A key \in ListKeys : ThreeItems(GetItem(FallbackNow.value, key))
          /\ GetItem(FallbackNow.value, "summary").k = "str"
    /\ (pc \in {"create", "done"} /\ used_fallback) =>
          /\ ai_insights = FallbackNow.value
          /\ \A key \in ListKeys : ThreeItems(GetItem(ai_insights, key))
    /\ (pc = "failed" => ~used_fallback)

\* C6 witness: the provider raised for a user with no session whose pattern summary
\* holds only an error key, and the fallback insights were stored.
C6_Witness ==
    /\ pc = "done"
    /\ used_fallback
    /\ ai_outcome.raised
    /\ session_stats.total_sessions = 0
    /\ DOMAIN pattern_analysis = {"error"}
    /\ ThreeItems(reports[1].strengths)

-----------------------------------------------------------------------------
(* Claims about the lesson output parser, checked under SpecParser *)

Parsed == ppc \in {"parsed", "serialized", "reparsed"}
\* The value the JSON decoder gives for the text between the fences
DecodedNow == JsonLoads(CleanResponse(ai_response))
Required == {"title", "description", "scenario", "objectives", "content"}
MissingNow == {f \in Required : f \notin Keys(DecodedNow.value)}

\* C7: the parser returns a map only when the text, fences stripped, is valid JSON
\* holding title, description, scenario, objectives and content; text that is no valid
\* JSON raises an error and no map; a JSON object that lacks a required field raises
\* an error that names a field it lacks.
C7_ParserValidates ==
    Parsed =>
        /\ lesson_data.tag \in {"ok", "raise"}
        /\ lesson_data.tag = "ok" =>
              /\ DecodedNow.tag = "ok"
              /\ DecodedNow.value.k = "obj"
              /\ Required \subseteq Keys(DecodedNow.value)
              /\ lesson_data.value.k = "obj"
              /\ Required \subseteq Keys(lesson_data.value)
        /\ DecodedNow.tag = "raise" =>
              /\ lesson_data.tag = "raise"
              /\ lesson_data.exc = "ValueError"
              /\ lesson_data.msg = "AI response was not valid JSON"
        /\ (DecodedNow.tag = "ok" /\ DecodedNow.value.k = "obj" /\ MissingNow # {}) =>
              /\ lesson_data.tag = "raise"
              /\ lesson_data.exc = "ValueError"
              /\ lesson_data.cause.msg = "Missing required field"
              /\ lesson_data.cause.field \in MissingNow

\* C7 witness: fenced JSON that holds every required field but scenario was rejected
\* with an error naming scenario.
C7_Witness ==
    /\ ppc = "parsed"
    /\ StartsWith(ai_response, <<Fence, JsonTag>>)
    /\ DecodedNow.tag = "ok"
    /\ DecodedNow.value.k = "obj"
    /\ MissingNow = {"scenario"}
    /\ lesson_data.tag = "raise"
    /\ lesson_data.cause.field = "scenario"

\* A text wrapped in one pair of fences: an opening ```json or ```, a closing ```,
\* and no further fence marker between them
OpeningOf(text) ==
    IF StartsWith(Strip(text), <<Fence, JsonTag>>) THEN <<Fence, JsonTag>> ELSE <<Fence>>
InnerOf(text) == DropLast(DropFirst(Strip(text), Len(OpeningOf(text))), 1)
IsFenced(text) ==
    /\ Len(Strip(text)) >= Len(OpeningOf(text)) + 1
    /\ StartsWith(Strip(text), <<Fence>>)
    /\ EndsWith(Strip(text), <<Fence>>)
    /\ Fence \notin Range(InnerOf(text))
\* The same text with the two fence markers taken out and everything else kept
LeadOf(text) == SubSeq(text, 1, Len(text) - Len(LStrip(text)))
TrailOf(text) == SubSeq(text, Len(RStrip(text)) + 1, Len(text))
Unfenced(text) == LeadOf(text) \o InnerOf(text) \o TrailOf(text)

DefaultKeys == {Defaults[i].key : i \in 1..Len(Defaults)}
DefaultOf(key) == Defaults[CHOOSE i \in 1..Len(Defaults) : Defaults[i].key = key].val

\* C9: after a successful parse every field of the model output keeps the value the
\* model gave, and difficulty_level = 2, estimated_duration = 30 and tags = [] are
\* filled in for exactly those of the three that the output lacks.
C9_DefaultsOnlyWhenAbsent ==
    (Parsed /\ lesson_data.tag = "ok") =>
        /\ Keys(lesson_data.value) = Keys(DecodedNow.value) \cup DefaultKeys
        /\ Len(lesson_data.value.members) = Cardinality(Keys(lesson_data.value))
        /\ \A key \in Keys(DecodedNow.value) :
              GetItem(lesson_data.value, key) = GetItem(DecodedNow.value, key)
        /\ \A key \in DefaultKeys \ Keys(DecodedNow.value) :
              GetItem(lesson_data.value, key) = DefaultOf(key)
        /\ DefaultOf("difficulty_level") = JNum(2)
        /\ DefaultOf("estimated_duration") = JNum(30)
        /\ DefaultOf("tags") = JArr(<<>>)

\* C9 witness: the output gave difficulty_level 4 and no tags; the map holds
\* difficulty_level 4 and the default tags.
C9_Witness ==
    /\ ppc = "parsed"
    /\ lesson_data.tag = "ok"
    /\ ai_response = <<Doc(JObj(FullLesson \o Present("difficulty_level", JNum(4))))>>
    /\ "difficulty_level" \in Keys(DecodedNow.value)
    /\ "tags" \notin Keys(DecodedNow.value)
    /\ GetItem(lesson_data.value, "difficulty_level") = JNum(4)
    /\ GetItem(lesson_data.value, "tags") = JArr(<<>>)

\* C10: serializing the map of a successful parse and parsing that text again
\* succeeds and gives the identical map.
C10_ParseIdempotent ==
    ppc = "reparsed" =>
        /\ reparsed.tag = "ok"
        /\ DictEq(reparsed.value, lesson_data.value)
        /\ reparsed = lesson_data

\* C10 witness: the map parsed from a fenced text that lacked the optional fields and
\* repeated a key was serialized and parsed again.
C10_Witness ==
    /\ ppc = "reparsed"
    /\ IsFenced(ai_response)
    /\ reparsed.tag = "ok"
    /\ serialized # CleanResponse(ai_response)
    /\ DefaultKeys \cap Keys(DecodedNow.value) = {}

-----------------------------------------------------------------------------
(* DocumentService: a filename is a sequence of tokens ("/", "." and words), *)
(* file content is named by what the decoders can make of it                *)

MaxNameLen == 3

\* self.supported_formats
supported_formats ==
    [ext \in {<<".", "txt">>, <<".", "md">>, <<".", "pdf">>, <<".", "docx">>, <<".", "doc">>,
              <<".", "json">>, <<".", "csv">>, <<".", "xlsx">>, <<".", "xls">>} |->
        CASE ext \in {<<".", "txt">>, <<".", "md">>} -> "_parse_text"
          [] ext = <<".", "pdf">> -> "_parse_pdf"
          [] ext = <<".", "docx">> -> "_parse_docx"
          [] ext = <<".", "doc">> -> "_parse_doc"
          [] ext = <<".", "json">> -> "_parse_json"
          [] ext = <<".", "csv">> -> "_parse_csv"
          [] OTHER -> "_parse_excel"]

LastIndexOf(s, tok) ==
    LET at == {i \in 1..Len(s) : s[i] = tok}
    IN IF at = {} THEN 0 ELSE CHOOSE i \in at : \A j \in at : j <= i

\* Path(filename).name: the last path component, empty and "." components dropped
RECURSIVE PathName(_)
PathName(filename) ==
    IF filename = <<>> THEN <<>>
    ELSE LET cut == LastIndexOf(filename, "/")
             last == SubSeq(filename, cut + 1, Len(filename))
         IN IF last = <<>> \/ last = <<".">>
            THEN IF cut = 0 THEN <<>> ELSE PathName(SubSeq(filename, 1, cut - 1))
            ELSE last

\* Path(filename).suffix: from the last dot of the name, unless that dot is the
\* first or the last character of the name
PathSuffix(filename) ==
    LET name == PathName(filename)
        i == LastIndexOf(name, ".")
    IN IF 1 < i /\ i < Len(name) THEN SubSeq(name, i, Len(name)) ELSE <<>>

\* str.lower on one token
LowerToken(tok) ==
    CASE tok = "TXT" -> "txt"
      [] tok = "Pdf" -> "pdf"
      [] OTHER -> tok

Lower(text) == [i \in 1..Len(text) |-> LowerToken(text[i])]

\* the suffix with the case the uploader typed
ExtensionAsTyped(filename) == PathSuffix(filename)

\* ext = Path(filename).suffix.lower()
Extension(filename) == Lower(PathSuffix(filename))

is_supported(filename) == Extension(filename) \in DOMAIN supported_formats

\* An error message of the document service is the sequence of the pieces of text
\* its f-string puts together, each piece a sequence of tokens.
\* What each _parse_* method does with the bytes it is given: _parse_text falls back
\* to latin-1 and always returns; _parse_json needs UTF-8 JSON; _parse_csv needs
\* UTF-8; the library decoders need a file of their own format.
Decoder(parser, content) ==
    LET accepted == CASE parser = "_parse_text" -> TRUE
                      [] parser = "_parse_json" -> content = "json text"
                      [] parser = "_parse_csv" -> content \in {"json text", "plain text"}
                      [] OTHER -> content = "native"
    IN IF accepted
       THEN [tag |-> "ok", value |-> [extracted_by |-> parser, from |-> content]]
       ELSE [tag |-> "raise", exc |-> "ValueError", msg |-> <<<<"Failed in", parser>>>>]

\* parse_document: the result, and the decoders it called on the way
parse_document(file_content, filename) ==
    LET ext == Extension(filename)
    IN IF ext \notin DOMAIN supported_formats
       THEN [invoked |-> <<>>,
             result |-> [tag |-> "raise", exc |-> "ValueError",
                         msg |-> <<<<"Unsupported file format:">>, ext>>]]
       ELSE LET parser == supported_formats[ext]
                content == Decoder(parser, file_content)
            IN [invoked |-> <<parser>>,
                result |-> IF content.tag = "ok"
                           THEN [tag |-> "ok",
                                 value |-> [filename |-> filename, format |-> ext,
                                            content |-> content.value]]
                           ELSE [tag |-> "raise", exc |-> "ValueError",
                                 msg |-> <<<<"Failed to parse document:">>>> \o content.msg]]

-----------------------------------------------------------------------------
(* One parse_document call on an uploaded file *)

NameTokens == {"/", ".", "report", "txt", "md", "pdf", "docx", "doc", "json", "csv",
               "xlsx", "xls", "TXT", "Pdf", "exe"}

FileNames == UNION {[1..n -> NameTokens] : n \in 1..MaxNameLen}

FileContents == {"plain text", "json text", "binary", "native"}

DocumentsInit ==
    /\ dpc = "received"
    /\ upload \in [filename : FileNames, content : FileContents]
    /\ decoders_invoked = <<>>
    /\ parse_result = None
    /\ AnalyticsIdle /\ ParserIdle /\ GatewayIdle /\ LessonsIdle
    /\ PromptIdle /\ ChatIdle /\ TeamsIdle

\* parsed = await document_service.parse_document(content, file.filename)
ParseDocument ==
    /\ dpc = "received"
    /\ LET call == parse_document(upload.content, upload.filename)
       IN /\ decoders_invoked' = decoders_invoked \o call.invoked
          /\ parse_result' = call.result
    /\ dpc' = "parsed"
    /\ UNCHANGED <<upload, analyticsVars, parserVars, gatewayVars, lessonVars,
                   promptVars, chatVars, teamVars>>

DocumentsNext == ParseDocument

SpecDocuments == DocumentsInit /\ [][DocumentsNext]_vars

-----------------------------------------------------------------------------
(* Claims about document ingestion, checked under SpecDocuments *)

\* The format table as the specification lists it: extension and decoder
FormatTable ==
    {<<<<".", "txt">>, "_parse_text">>, <<<<".", "md">>, "_parse_text">>,
     <<<<".", "pdf">>, "_parse_pdf">>, <<<<".", "docx">>, "_parse_docx">>,
     <<<<".", "doc">>, "_parse_doc">>, <<<<".", "json">>, "_parse_json">>,
     <<<<".", "csv">>, "_parse_csv">>, <<<<".", "xlsx">>, "_parse_excel">>,
     <<<<".", "xls">>, "_parse_excel">>}

TableExtensions == {row[1] : row \in FormatTable}

\* C20: is_supported(filename) is true exactly when the lower-cased extension of the
\* filename is in the format table; parse_document on an unsupported extension raises
\* the unsupported-format error with no decoder invoked; on a supported extension the
\* decoder the table maps it to is the one decoder invoked.
C20_FormatGate ==
    dpc = "parsed" =>
        LET ext == Lower(PathSuffix(upload.filename))
        IN /\ is_supported(upload.filename) <=> ext \in TableExtensions
           /\ ext \notin TableExtensions =>
                /\ parse_result.tag = "raise"
                /\ parse_result.msg[1] = <<"Unsupported file format:">>
                /\ decoders_invoked = <<>>
           /\ ext \in TableExtensions =>
                /\ Len(decoders_invoked) = 1
                /\ <<ext, decoders_invoked[1]>> \in FormatTable

\* an upper-case extension reaches the decoder of its lower-case form
C20_Witness ==
    /\ dpc = "parsed"
    /\ upload.filename = <<"report", ".", "Pdf">>
    /\ decoders_invoked = <<"_parse_pdf">>
    /\ parse_result.tag = "ok"

\* the decoder of a supported format was called on the upload and failed
DecoderFailed ==
    /\ dpc = "parsed"
    /\ Len(decoders_invoked) = 1
    /\ Decoder(decoders_invoked[1], upload.content).tag = "raise"

\* C21: when the decoder of a supported format fails, parse_document raises an error
\* whose message carries the filename of the upload, and returns no record.
C21_DecodeErrorNamesFile ==
    DecoderFailed =>
        /\ parse_result.tag = "raise"
        /\ upload.filename \in Range(parse_result.msg)

-----------------------------------------------------------------------------
(* AIService: the provider gateway *)

MaxHistory == 3

Providers == {"openai", "anthropic", "deepseek"}

\* truth value of an Optional[str]: None and "" are false
Truthy(text) == text # None /\ text # JStr(<<>>)

Message(role, content) == [role |-> role, content |-> content]

\* the system message put after the caller's messages
FormattedMessagesSystemLast(messages, system_prompt) ==
    messages \o (IF Truthy(system_prompt) THEN <<Message("system", system_prompt)>> ELSE <<>>)

\* formatted_messages of _openai_response and _deepseek_response
FormattedMessages(messages, system_prompt) ==
    (IF Truthy(system_prompt) THEN <<Message("system", system_prompt)>> ELSE <<>>) \o messages

\* every provider routed to the default adapter
DispatchToDefault(provider) == "_openai_response"

\* the if/elif chain of generate_response
Dispatch(provider) ==
    CASE provider = "openai" -> "_openai_response"
      [] provider = "anthropic" -> "_anthropic_response"
      [] provider = "deepseek" -> "_deepseek_response"
      [] OTHER -> "unsupported"

\* The part of an adapter that runs before it hands a request to its client:
\* either it raises, or it has built the request.
RunAdapter(adapter, messages, system_prompt, keys) ==
    CASE adapter = "_openai_response" ->
            [tag |-> "ok",
             request |-> [client |-> "openai", api_key |-> keys.OPENAI_API_KEY,
                          model |-> "gpt-4-turbo-preview",
                          messages |-> FormattedMessages(messages, system_prompt)]]
      [] adapter = "_anthropic_response" ->
            [tag |-> "ok",
             request |-> [client |-> "anthropic", api_key |-> keys.ANTHROPIC_API_KEY,
                          model |-> "claude-3-5-sonnet-20241022",
                          system |-> IF Truthy(system_prompt) THEN system_prompt
                                     ELSE JStr(<<>>),
                          messages |-> messages]]
      [] adapter = "_deepseek_response" ->
            IF keys.DEEPSEEK_API_KEY = ""
            THEN [tag |-> "raise", exc |-> "ValueError",
                  msg |-> "DeepSeek API key not configured"]
            ELSE [tag |-> "ok",
                  request |-> [client |-> "deepseek", api_key |-> keys.DEEPSEEK_API_KEY,
                               model |-> "deepseek-chat",
                               messages |-> FormattedMessages(messages, system_prompt)]]
      [] OTHER -> [tag |-> "raise", exc |-> "ValueError", msg |-> "Unsupported AI provider"]

\* What a provider client can do with a request. With an empty key no completion
\* comes back: the client library refuses the request or the provider rejects it.
ClientOutcomes(request) ==
    {[tag |-> "raise", exc |-> e] : e \in {"client refused", "provider rejected"}}
    \cup (IF request.api_key = "" THEN {}
          ELSE {[tag |-> "raise", exc |-> e] : e \in {"timeout", "bad status"}}
               \cup {[tag |-> "ok", content |-> c, input_tokens |-> 3, output_tokens |-> 4] :
                        c \in {<<Junk>>, <<Doc(JObj(<<>>))>>}})

\* the dict an adapter returns from a completion
AdapterReturn(reply) ==
    [tag |-> "ok",
     value |-> [content |-> reply.content,
                tokens_used |-> reply.input_tokens + reply.output_tokens]]

-----------------------------------------------------------------------------
(* One generate_response call *)

Keyring == [OPENAI_API_KEY : {"", "sk-o"}, ANTHROPIC_API_KEY : {"", "sk-a"},
            DEEPSEEK_API_KEY : {"", "sk-d"}]

Turns == {Message("user", JStr(<<"first question">>)),
          Message("assistant", JStr(<<"first answer">>)),
          Message("user", JStr(<<"second question">>))}

Histories == UNION {[1..n -> Turns] : n \in 0..MaxHistory}

SystemPrompts == {None, JStr(<<>>), JStr(<<"You are a coach">>)}

GatewayInit ==
    /\ gpc = "called"
    /\ settings \in Keyring
    /\ g_request \in [messages : Histories, provider : Providers,
                      system_prompt : SystemPrompts]
    /\ adapters_run = <<>>
    /\ network_calls = <<>>
    /\ g_result = None
    /\ AnalyticsIdle /\ ParserIdle /\ DocumentsIdle /\ LessonsIdle
    /\ PromptIdle /\ ChatIdle /\ TeamsIdle

\* generate_response up to the adapter's call into its client
GenerateResponse ==
    /\ gpc = "called"
    /\ LET adapter == Dispatch(g_request.provider)
           ran == RunAdapter(adapter, g_request.messages, g_request.system_prompt, settings)
       IN /\ adapters_run' = IF adapter = "unsupported" THEN adapters_run
                             ELSE Append(adapters_run, adapter)
          /\ IF ran.tag = "raise"
             THEN /\ g_result' = ran
                  /\ gpc' = "done"
                  /\ UNCHANGED network_calls
             ELSE /\ network_calls' = Append(network_calls, ran.request)
                  /\ gpc' = "awaiting"
                  /\ UNCHANGED g_result
    /\ UNCHANGED <<settings, g_request, analyticsVars, parserVars, docVars, lessonVars,
                   promptVars, chatVars, teamVars>>

\* the client returns or raises; generate_response logs and re-raises
ClientReturns ==
    /\ gpc = "awaiting"
    /\ \E reply \in ClientOutcomes(network_calls[Len(network_calls)]) :
          g_result' = IF reply.tag = "ok" THEN AdapterReturn(reply) ELSE reply
    /\ gpc' = "done"
    /\ UNCHANGED <<settings, g_request, adapters_run, network_calls,
                   analyticsVars, parserVars, docVars, lessonVars, promptVars, chatVars, teamVars>>

GatewayNext == GenerateResponse \/ ClientReturns

SpecGateway == GatewayInit /\ [][GatewayNext]_vars

-----------------------------------------------------------------------------
(* Claims about the provider gateway, checked under SpecGateway *)

\* the adapter each provider id names
AdapterOf == [openai |-> "_openai_response", anthropic |-> "_anthropic_response",
              deepseek |-> "_deepseek_response"]

\* C16: a generate call runs only the adapter of the provider named in the call, and
\* runs it at most once; at most one request goes to a client, and it goes to the
\* named provider's client; when the call has failed, that one adapter is all that
\* ran: the error is the call's result, with no retry and no other provider tried.
C16_OnlyNamedAdapter ==
    /\ Len(adapters_run) <= 1
    /\ \A i \in 1..Len(adapters_run) : adapters_run[i] = AdapterOf[g_request.provider]
    /\ Len(network_calls) <= 1
    /\ \A i \in 1..Len(network_calls) : network_calls[i].client = g_request.provider
    /\ gpc # "called" => Len(adapters_run) = 1
    /\ (gpc = "done" /\ g_result.tag = "raise") =>
          /\ adapters_run = <<AdapterOf[g_request.provider]>>
          /\ g_result.exc \in {"ValueError", "client refused", "provider rejected",
                               "timeout", "bad status"}

\* a provider times out and the call ends with that error after one adapter run
C16_Witness ==
    /\ gpc = "done"
    /\ g_request.provider = "anthropic"
    /\ g_result.tag = "raise" /\ g_result.exc = "timeout"
    /\ adapters_run = <<"_anthropic_response">>
    /\ Len(network_calls) = 1

\* the configured credential of the provider the call names
CredentialOf(provider) ==
    CASE provider = "openai" -> settings.OPENAI_API_KEY
      [] provider = "anthropic" -> settings.ANTHROPIC_API_KEY
      [] OTHER -> settings.DEEPSEEK_API_KEY

\* C17: for every provider, a generate call made while that provider's credential is
\* empty ends with a configuration error and no request has been handed to a client.
C17_MissingCredentialFailsEarly ==
    (gpc # "called" /\ CredentialOf(g_request.provider) = "") =>
        /\ network_calls = <<>>
        /\ gpc = "done"
        /\ g_result.tag = "raise"
        /\ g_result.exc = "ValueError"

\* C18: the request of the OpenAI and DeepSeek adapters is the system prompt as one
\* leading system message (when a non-empty one is given) followed by the caller's
\* messages in their order; the Anthropic request carries the caller's messages
\* unchanged and the system prompt in its `system` field.
C18_OrderKept ==
    \A i \in 1..Len(network_calls) :
        LET sent == network_calls[i]
            prompt == g_request.system_prompt
            given == prompt \notin {None, JStr(<<>>)}
        IN IF sent.client = "anthropic"
           THEN /\ sent.messages = g_request.messages
                /\ given => sent.system = prompt
           ELSE sent.messages =
                    (IF given THEN <<[role |-> "system", content |-> prompt]>> ELSE <<>>)
                    \o g_request.messages

\* a three-turn history goes to DeepSeek behind the system message
C18_Witness ==
    /\ Len(network_calls) = 1
    /\ network_calls[1].client = "deepseek"
    /\ Len(g_request.messages) = 3
    /\ g_request.messages[1] # g_request.messages[2]
    /\ Len(network_calls[1].messages) = 4
    /\ network_calls[1].messages[1].role = "system"

-----------------------------------------------------------------------------
(* LessonGeneratorService: generation and refinement around one gateway call *)

\* d[key] = val on a dict
SetItem(d, key, val) ==
    IF key \in Keys(d)
    THEN JObj([i \in 1..Len(d.members) |->
                 IF d.members[i].key = key THEN Member(key, val) ELSE d.members[i]])
    ELSE JObj(Append(d.members, Member(key, val)))

\* d.get(key, default)
DictGet(d, key, default) == IF key \in Keys(d) THEN GetItem(d, key) ELSE default

HeaderLine(idx, filename) == [line |-> "header", idx |-> idx, filename |-> filename]
TextLine(text) == [line |-> "text", text |-> text]
EmptyLine == [line |-> "empty"]

\* the headers numbered as enumerate(documents) would, from zero
build_document_context_from_zero(documents) ==
    [j \in 1..(3 * Len(documents)) |->
        LET idx == ((j - 1) \div 3) + 1
            doc == documents[idx]
        IN CASE (j - 1) % 3 = 0 -> HeaderLine(idx - 1, doc.filename)
             [] (j - 1) % 3 = 1 -> TextLine(doc.content)
             [] OTHER -> EmptyLine]

\* _build_document_context: the lines that "\n".join puts together; for the
\* document at position idx (from 1) a header line, its text, an empty line
build_document_context(documents) ==
    [j \in 1..(3 * Len(documents)) |->
        LET idx == ((j - 1) \div 3) + 1
            doc == documents[idx]
        IN CASE (j - 1) % 3 = 0 -> HeaderLine(idx, doc.filename)
             [] (j - 1) % 3 = 1 -> TextLine(doc.content)
             [] OTHER -> EmptyLine]

\* _build_user_message
build_user_message(prompt, document_context, additional_context) ==
    <<TextLine("Please generate a lesson based on the following:"), EmptyLine,
      TextLine(<<"USER REQUEST:", prompt>>), EmptyLine>>
    \o (IF Truthy(additional_context)
        THEN <<TextLine(<<"ADDITIONAL CONTEXT:", additional_context>>), EmptyLine>>
        ELSE <<>>)
    \o <<TextLine("SOURCE DOCUMENTS:")>> \o document_context
    \o <<EmptyLine,
         TextLine("Generate a comprehensive lesson following the specified JSON structure.")>>

\* the arguments of the one ai_service.generate_response call a service method makes
GatewayCall(user_message, provider, system_prompt) ==
    [messages |-> <<Message("user", user_message)>>, provider |-> provider,
     system_prompt |-> system_prompt]

\* the service method asking the gateway again when the first answer does not parse
LessonResultWithRetry(call, outcome, wrapped, metadata) ==
    LET parsed == parse_lesson_response(outcome.content)
    IN IF outcome.raised
       THEN [calls |-> <<call>>,
             result |-> [tag |-> "raise", exc |-> "ValueError", msg |-> wrapped,
                         cause |-> "provider error"]]
       ELSE IF parsed.tag = "raise"
       THEN [calls |-> <<call, call>>,
             result |-> [tag |-> "raise", exc |-> "ValueError", msg |-> wrapped,
                         cause |-> parsed.msg]]
       ELSE [calls |-> <<call>>,
             result |-> [tag |-> "ok",
                         value |-> SetItem(IF metadata = None THEN parsed.value
                                           ELSE SetItem(parsed.value, "ai_provider", metadata),
                                           "tokens_used", JNum(outcome.tokens_used))]]

\* What both service methods do from the gateway call on: one call; its exception, or
\* the parser's, leaves wrapped in a ValueError; a parsed lesson gets its metadata
LessonResult(call, outcome, wrapped, metadata) ==
    LET parsed == parse_lesson_response(outcome.content)
    IN [calls |-> <<call>>,
        result |->
          IF outcome.raised
          THEN [tag |-> "raise", exc |-> "ValueError", msg |-> wrapped,
                cause |-> "provider error"]
          ELSE IF parsed.tag = "raise"
          THEN [tag |-> "raise", exc |-> "ValueError", msg |-> wrapped,
                cause |-> parsed.msg]
          ELSE [tag |-> "ok",
                value |-> SetItem(IF metadata = None THEN parsed.value
                                  ELSE SetItem(parsed.value, "ai_provider", metadata),
                                  "tokens_used", JNum(outcome.tokens_used))]]

\* generate_lesson_from_documents
generate_lesson_from_documents(prompt, documents, lesson_type, provider, extra, outcome) ==
    LET document_context == build_document_context(documents)
        user_message == build_user_message(prompt, document_context, extra)
        call == GatewayCall(user_message, provider, <<"lesson generation prompt", lesson_type>>)
        made == LessonResult(call, outcome, "Failed to generate lesson", JStr(<<provider>>))
    IN [context |-> document_context, calls |-> made.calls, result |-> made.result]

\* refine_lesson handing on whatever JSON object the model wrote, unvalidated
refine_lesson_unvalidated(current, refinement_prompt, provider, outcome) ==
    LET decoded == JsonLoads(CleanResponse(outcome.content))
        call == GatewayCall(<<TextLine(JsonDumps(current)), TextLine(refinement_prompt)>>,
                            provider, <<"refinement prompt">>)
    IN IF ~outcome.raised /\ decoded.tag = "ok" /\ decoded.value.k = "obj"
       THEN [calls |-> <<call>>,
             result |-> [tag |-> "ok",
                         value |-> SetItem(decoded.value, "tokens_used",
                                           JNum(outcome.tokens_used))]]
       ELSE LessonResult(call, outcome, "Failed to refine lesson", None)

\* refine_lesson
refine_lesson(current, refinement_prompt, provider, outcome) ==
    LET user_message == <<TextLine("Current Lesson:"), TextLine(JsonDumps(current)),
                          EmptyLine, TextLine("Refinement Instructions:"),
                          TextLine(refinement_prompt), EmptyLine,
                          TextLine("Please refine the lesson and return it in JSON format.")>>
        call == GatewayCall(user_message, provider, <<"refinement prompt">>)
    IN LessonResult(call, outcome, "Failed to refine lesson", None)

-----------------------------------------------------------------------------
(* The admin endpoints POST /generate and POST /{lesson_id}/refine *)

\* the loop over the uploaded files: the parsed documents in upload order, or the
\* first exception
RECURSIVE ParseUploads(_, _)
ParseUploads(files, parsed_documents) ==
    IF files = <<>> THEN [tag |-> "ok", value |-> parsed_documents]
    ELSE LET file == Head(files)
             parsed_doc == parse_document(file.content, file.filename).result
         IN IF ~is_supported(file.filename)
            THEN [tag |-> "raise", exc |-> "HTTPException",
                  msg |-> <<"Unsupported file format:", file.filename>>]
            ELSE IF parsed_doc.tag = "raise" THEN parsed_doc
            ELSE ParseUploads(Tail(files), Append(parsed_documents, parsed_doc.value))

\* the two except clauses of the generate handler: a ValueError is answered 400 with
\* its text, anything else (an HTTPException raised in the try block included) 500
GenerateFailure(raised) ==
    IF raised.exc = "ValueError"
    THEN [status_code |-> 400, detail |-> raised.msg]
    ELSE [status_code |-> 500, detail |-> "Failed to generate lesson"]

\* Lesson(...) as the generate handler fills it
NewLesson(generated, lesson_type, prompt, parsed_documents, user_id) ==
    [title |-> GetItem(generated, "title"),
     description |-> GetItem(generated, "description"),
     lesson_type |-> lesson_type,
     content |-> GetItem(generated, "content"),
     scenario |-> GetItem(generated, "scenario"),
     objectives |-> GetItem(generated, "objectives"),
     difficulty_level |-> DictGet(generated, "difficulty_level", JNum(DefaultDifficulty)),
     estimated_duration |-> DictGet(generated, "estimated_duration", JNum(DefaultDuration)),
     tags |-> DictGet(generated, "tags", JArr(<<>>)),
     status |-> "DRAFT",
     created_by |-> user_id,
     generation_prompt |-> prompt,
     source_documents |-> [i \in 1..Len(parsed_documents) |->
                             [filename |-> parsed_documents[i].filename,
                              format |-> parsed_documents[i].format]],
     \* columns the constructor call does not name
     published_at |-> None,
     reviewed_by |-> None]

\* db.commit() fails on a row that breaks the NOT NULL constraint of lessons.title
CommitFails(lesson) == lesson.title = None

\* current_lesson_data of the refine handler
CurrentLessonData(lesson) ==
    JObj(<<Member("title", lesson.title), Member("description", lesson.description),
           Member("scenario", lesson.scenario), Member("objectives", lesson.objectives),
           Member("content", lesson.content),
           Member("difficulty_level", lesson.difficulty_level),
           Member("estimated_duration", lesson.estimated_duration),
           Member("tags", lesson.tags)>>)

\* the eight assignments lesson.X = refined_data.get("X", lesson.X)
ApplyRefinement(lesson, refined_data) ==
    [lesson EXCEPT
        !.title = DictGet(refined_data, "title", @),
        !.description = DictGet(refined_data, "description", @),
        !.scenario = DictGet(refined_data, "scenario", @),
        !.objectives = DictGet(refined_data, "objectives", @),
        !.content = DictGet(refined_data, "content", @),
        !.difficulty_level = DictGet(refined_data, "difficulty_level", @),
        !.estimated_duration = DictGet(refined_data, "estimated_duration", @),
        !.tags = DictGet(refined_data, "tags", @)]

\* the start of the generate handler's try block: no file at all, or the loop
ReceiveUploads(files) ==
    IF files = <<>>
    THEN [tag |-> "raise", exc |-> "HTTPException",
          msg |-> "At least one document is required"]
    ELSE ParseUploads(files, <<>>)

\* The generate handler, given what its upload loop and its service call produced
\* (`made` is None when the service was not called): the table after it, the context
\* built, the service call made and the answer
generate_endpoint(rows, request, outcome, uploads, made) ==
    LET service == [op |-> "generate", outcome |-> outcome, calls |-> made.calls,
                    result |-> made.result]
        new_lesson == NewLesson(made.result.value, request.lesson_type, request.prompt,
                                uploads.value, request.user_id)
    IN IF uploads.tag = "raise"
       THEN [rows |-> rows, context |-> <<>>, service |-> None,
             response |-> GenerateFailure(uploads)]
       ELSE IF made.result.tag = "raise"
       THEN [rows |-> rows, context |-> made.context, service |-> service,
             response |-> GenerateFailure(made.result)]
       ELSE IF CommitFails(new_lesson)
       THEN [rows |-> rows, context |-> made.context, service |-> service,
             response |-> GenerateFailure([exc |-> "IntegrityError"])]
       ELSE [rows |-> Append(rows, new_lesson), context |-> made.context,
             service |-> service,
             response |-> [status_code |-> 201, lesson_id |-> Len(rows) + 1,
                           title |-> new_lesson.title, status |-> new_lesson.status]]

\* a refine handler that tests only whether the lesson exists
RefineRefusedIfMissing(rows, request) ==
    IF request.lesson_id \notin 1..Len(rows)
    THEN [refused |-> TRUE,
          response |-> [status_code |-> 404, detail |-> "Lesson not found"]]
    ELSE [refused |-> FALSE]

\* the two tests of the refine handler that come before its try block
RefineRefused(rows, request) ==
    IF request.lesson_id \notin 1..Len(rows)
    THEN [refused |-> TRUE,
          response |-> [status_code |-> 404, detail |-> "Lesson not found"]]
    ELSE IF rows[request.lesson_id].status \notin {"DRAFT", "IN_REVIEW"}
    THEN [refused |-> TRUE,
          response |-> [status_code |-> 400,
                        detail |-> "Can only refine lessons in DRAFT or IN_REVIEW status"]]
    ELSE [refused |-> FALSE]

\* The refine handler, given what its service call produced (`made` is None when the
\* request was refused before the call)
refine_endpoint(rows, request, outcome, made) ==
    LET lesson == rows[request.lesson_id]
        service == [op |-> "refine", outcome |-> outcome, calls |-> made.calls,
                    result |-> made.result]
        refined == ApplyRefinement(lesson, made.result.value)
    IN IF RefineRefused(rows, request).refused
       THEN [rows |-> rows, service |-> None,
             response |-> RefineRefused(rows, request).response]
       ELSE IF made.result.tag = "raise"
       THEN [rows |-> rows, service |-> service,
             response |-> [status_code |-> 500,
                           detail |-> <<"Failed to refine lesson:", made.result.msg>>]]
       ELSE IF CommitFails(refined)
       THEN [rows |-> rows, service |-> service,
             response |-> [status_code |-> 500,
                           detail |-> <<"Failed to refine lesson:", "IntegrityError">>]]
       ELSE [rows |-> [rows EXCEPT ![request.lesson_id] = refined], service |-> service,
             response |-> [status_code |-> 200, lesson |-> refined]]

-----------------------------------------------------------------------------
(* Requests to the two endpoints, one after the other *)

MaxRows == 2

UploadedFile(filename, content) == [filename |-> filename, content |-> content]

NotesTxt == UploadedFile(<<"notes", ".", "txt">>, "plain text")
PlanPdf == UploadedFile(<<"plan", ".", "Pdf">>, "native")

\* upload lists: none, two files in both orders, one unsupported, one undecodable
Uploads ==
    {<<>>, <<NotesTxt, PlanPdf>>, <<PlanPdf, NotesTxt>>,
     <<NotesTxt, UploadedFile(<<"tool", ".", "exe">>, "binary")>>,
     <<NotesTxt, UploadedFile(<<"data", ".", "json">>, "binary")>>}

\* what the model writes for the optional fields
Optionals == Present("difficulty_level", JNum(4)) \o Present("estimated_duration", JNum(45))
             \o Present("tags", StrList(<<"sales">>))

\* What the gateway call of a lesson request ends with: an exception, or text
LessonOutcomes ==
    {[raised |-> TRUE, content |-> <<>>, tokens_used |-> 0]}
    \cup {[raised |-> FALSE, content |-> c, tokens_used |-> 7] : c \in
            {<<Doc(JObj(FullLesson \o Optionals))>>,
             <<Fence, JsonTag, Ws, Doc(JObj(FullLesson)), Ws, Fence>>,
             <<Doc(JObj(RequiredMembers(Range(SchemaFields) \ {"scenario"}) \o Optionals))>>,
             <<Doc(JObj(RequiredMembers(Range(SchemaFields) \ {"objectives"})
                        \o Present("objectives", JArr(<<>>))
                        \o Present("difficulty_level", JNum(9))))>>,
             <<Doc(JObj(<<Member("title", None)>> \o Tail(FullLesson)))>>,
             <<Junk>>}}

\* every upload list with the default provider, and one upload list with every
\* provider, with and without additional context
GenerateRequests ==
    LET request(files, ai_model, additional_context) ==
            [files |-> files, prompt |-> JStr(<<"teach negotiation">>),
             lesson_type |-> "negotiation", ai_model |-> ai_model,
             additional_context |-> additional_context, user_id |-> "admin"]
    IN {request(files, "anthropic", None) : files \in Uploads}
       \cup {request(<<NotesTxt, PlanPdf>>, ai_model, additional_context) :
                ai_model \in Providers,
                additional_context \in {None, JStr(<<"for new hires">>)}}

RefineRequests ==
    [lesson_id : 1..(MaxRows + 1), refinement_prompt : {JStr(<<"make it shorter">>)},
     ai_model : {"anthropic", "openai"}]

LessonsInit ==
    /\ lesson_rows = <<>>
    /\ l_request = None
    /\ l_before = <<>>
    /\ l_context = <<>>
    /\ l_service = None
    /\ l_response = None
    /\ AnalyticsIdle /\ ParserIdle /\ DocumentsIdle /\ GatewayIdle
    /\ PromptIdle /\ ChatIdle /\ TeamsIdle

\* POST /api/admin/lessons/generate
GenerateLesson ==
    /\ Len(lesson_rows) < MaxRows
    /\ \E request \in GenerateRequests, outcome \in LessonOutcomes :
       \E uploads \in {ReceiveUploads(request.files)} :
       \E made \in {IF uploads.tag = "raise" THEN None
                    ELSE generate_lesson_from_documents(request.prompt, uploads.value,
                            request.lesson_type, request.ai_model,
                            request.additional_context, outcome)} :
       \E done \in {generate_endpoint(lesson_rows, request, outcome, uploads, made)} :
          /\ l_request' = [op |-> "generate", args |-> request]
          /\ l_before' = lesson_rows
          /\ lesson_rows' = done.rows
          /\ l_context' = done.context
          /\ l_service' = done.service
          /\ l_response' = done.response
    /\ UNCHANGED <<analyticsVars, parserVars, docVars, gatewayVars, promptVars, chatVars, teamVars>>

\* POST /api/admin/lessons/{lesson_id}/refine
RefineLesson ==
    /\ \E request \in RefineRequests, outcome \in LessonOutcomes :
       \E made \in {IF RefineRefused(lesson_rows, request).refused THEN None
                    ELSE refine_lesson(CurrentLessonData(lesson_rows[request.lesson_id]),
                                       request.refinement_prompt, request.ai_model,
                                       outcome)} :
       \E done \in {refine_endpoint(lesson_rows, request, outcome, made)} :
          /\ l_request' = [op |-> "refine", args |-> request]
          /\ l_before' = lesson_rows
          /\ lesson_rows' = done.rows
          /\ l_context' = <<>>
          /\ l_service' = done.service
          /\ l_response' = done.response
    /\ UNCHANGED <<analyticsVars, parserVars, docVars, gatewayVars, promptVars, chatVars, teamVars>>

LessonsNext == GenerateLesson \/ RefineLesson

SpecLessons == LessonsInit /\ [][LessonsNext]_vars

-----------------------------------------------------------------------------
(* Claims about the lesson pipeline, checked under SpecLessons *)

Generating == l_request # None /\ l_request.op = "generate"
Refining == l_request # None /\ l_request.op = "refine"
ServiceCalled == l_service # None

\* the stored lesson a refine request names, before and after the request
TargetBefore == l_before[l_request.args.lesson_id]
TargetAfter == lesson_rows[l_request.args.lesson_id]

\* the JSON the model wrote, fences and padding removed
ModelWrote == JsonLoads(CleanResponse(l_service.outcome.content))
WroteObject == /\ ServiceCalled /\ ~l_service.outcome.raised
               /\ ModelWrote.tag = "ok" /\ ModelWrote.value.k = "obj"
WroteRequired == {"title", "description", "scenario", "objectives", "content"}
                    \subseteq Keys(ModelWrote.value)

\* C11: a refinement whose model output has every required field and no `tags`
\* succeeds and the lesson gets the default tags, the empty list; a refinement whose
\* model output has no `scenario` ends in a validation error and no lesson is returned
\* or stored.
C11_RefineDefaultsAndRequired ==
    (Refining /\ WroteObject) =>
        /\ (WroteRequired /\ "tags" \notin Keys(ModelWrote.value)
            /\ GetItem(ModelWrote.value, "title") # None) =>
              /\ l_service.result.tag = "ok"
              /\ DictGet(l_service.result.value, "tags", None) = JArr(<<>>)
              /\ l_response.status_code = 200
              /\ TargetAfter.tags = JArr(<<>>)
        /\ "scenario" \notin Keys(ModelWrote.value) =>
              /\ l_service.result.tag = "raise"
              /\ l_service.result.exc = "ValueError"
              /\ l_response.status_code = 500
              /\ lesson_rows = l_before

\* a lesson tagged "sales" is refined with an output that has no tags
C11_Witness ==
    /\ Refining /\ WroteObject /\ WroteRequired
    /\ "tags" \notin Keys(ModelWrote.value)
    /\ TargetBefore.tags = StrList(<<"sales">>)
    /\ l_response.status_code = 200
    /\ TargetAfter.tags = JArr(<<>>)

LessonFields == {"title", "description", "scenario", "objectives", "content",
                 "difficulty_level", "estimated_duration", "tags"}

\* C12: after a successful refine every field the model wrote holds the model's value
\* and every field the model omitted holds the value it had before the request.
C12_RefineKeepsOmitted ==
    (Refining /\ WroteObject /\ l_response.status_code = 200) =>
        \A field \in LessonFields :
            IF field \in Keys(ModelWrote.value)
            THEN TargetAfter[field] = GetItem(ModelWrote.value, field)
            ELSE TargetAfter[field] = TargetBefore[field]

\* the gateway call failed, or its text does not pass the parser
GenerationFailed ==
    /\ ServiceCalled
    /\ \/ l_service.outcome.raised
       \/ parse_lesson_response(l_service.outcome.content).tag = "raise"

\* C13: when the provider call fails or the model output fails validation, the request
\* is answered with an error and the lessons table is what it was: no row created by
\* generate, no field changed by refine.
C13_FailureLeavesNothing ==
    GenerationFailed =>
        /\ lesson_rows = l_before
        /\ l_response.status_code \in {400, 500}

\* a refinement of a stored lesson fails validation
C13_Witness ==
    /\ Refining /\ GenerationFailed
    /\ WroteObject /\ ~WroteRequired
    /\ Len(l_before) >= 1
    /\ lesson_rows = l_before

\* C14: a lesson returned by generate_lesson_from_documents has at least one objective
\* and a difficulty_level between 1 and 5.
C14_DraftWellFormed ==
    (Generating /\ ServiceCalled /\ l_service.result.tag = "ok") =>
        LET draft == l_service.result.value
            objectives == GetItem(draft, "objectives")
            difficulty == GetItem(draft, "difficulty_level")
        IN /\ objectives.k = "arr" /\ Len(objectives.items) >= 1
           /\ difficulty.k = "num" /\ difficulty.n \in 1..5

\* C15: a generate_lesson_from_documents call and a refine_lesson call each make one
\* gateway call, for the provider of the request, whether the call fails, the output
\* fails validation or a lesson comes back.
C15_OneGatewayCall ==
    ServiceCalled =>
        /\ Len(l_service.calls) = 1
        /\ l_service.calls[1].provider = l_request.args.ai_model

\* an output that fails validation was obtained with one gateway call
C15_Witness ==
    /\ ServiceCalled
    /\ ~l_service.outcome.raised
    /\ l_service.result.tag = "raise"
    /\ Len(l_service.calls) = 1

\* C19: the document context has one section per uploaded document, in upload order:
\* a header line with the document's position counted from 1 and its filename, then
\* the text extracted from that document.
C19_ContextInUploadOrder ==
    (Generating /\ ServiceCalled) =>
        LET files == l_request.args.files
        IN /\ Len(l_context) = 3 * Len(files)
           /\ \A i \in 1..Len(files) :
                /\ l_context[3 * i - 2] =
                      [line |-> "header", idx |-> i, filename |-> files[i].filename]
                /\ l_context[3 * i - 1].line = "text"
                /\ l_context[3 * i - 1].text =
                      parse_document(files[i].content, files[i].filename).result.value.content

\* a PDF uploaded before a text file is section 1, the text file section 2
C19_Witness ==
    /\ Generating /\ ServiceCalled
    /\ l_request.args.files = <<PlanPdf, NotesTxt>>
    /\ l_context[1].idx = 1 /\ l_context[1].filename = <<"plan", ".", "Pdf">>
    /\ l_context[4].idx = 2 /\ l_context[4].filename = <<"notes", ".", "txt">>

\* ==========================================================================
\* Analysis prompt: the "Sample Recent Messages" block
\* (backend/app/services/analysis_service.py, _generate_ai_insights)
\* ==========================================================================

SampleSize == 5
SampleWidth == 100
MaxRecent == 6

\* A message text of n characters; a character is written as its position.
Text(n) == [i \in 1..n |-> i]

\* msg[:n]
Slice(msg, n) == SubSeq(msg, 1, Min(Len(msg), n))

\* f"- {msg[:100]}..." if len(msg) > 100 else f"- {msg}"
SampleLine(msg) ==
    IF Len(msg) > SampleWidth
        THEN [bullet |-> "- ", text |-> Slice(msg, SampleWidth), suffix |-> "..."]
        ELSE [bullet |-> "- ", text |-> msg, suffix |-> ""]

SampleLinesOfAll(recent) == [i \in 1..Len(recent) |-> SampleLine(recent[i])]

\* ... for msg in recent_messages[:5]
SampleLines(recent) ==
    LET sample == Slice(recent, SampleSize)
    IN  [i \in 1..Len(sample) |-> SampleLine(sample[i])]

MessageTexts == {Text(0), Text(SampleWidth), Text(SampleWidth + 1), Text(SampleWidth + 30)}

RecentLists == UNION {[1..n -> MessageTexts] : n \in 0..MaxRecent}

PromptInit ==
    /\ qpc = "start"
    /\ recent_messages \in RecentLists
    /\ sample_lines = <<>>
    /\ AnalyticsIdle /\ ParserIdle /\ DocumentsIdle /\ GatewayIdle /\ LessonsIdle
    /\ ChatIdle /\ TeamsIdle

BuildAnalysisContext ==
    /\ qpc = "start"
    /\ sample_lines' = SampleLines(recent_messages)
    /\ qpc' = "built"
    /\ UNCHANGED <<recent_messages, analyticsVars, parserVars, docVars, gatewayVars,
                   lessonVars, chatVars, teamVars>>

PromptNext == BuildAnalysisContext

SpecPrompt == PromptInit /\ [][PromptNext]_vars

\* C22: the prompt lists at most 5 recent user messages, the first ones of the list in
\* their order, and the text taken from each message is its first 100 characters at most.
C22_SampleBounded ==
    qpc = "built" =>
        /\ Len(sample_lines) <= SampleSize
        /\ Len(sample_lines) = Min(Len(recent_messages), SampleSize)
        /\ \A i \in 1..Len(sample_lines) :
               /\ Len(sample_lines[i].text) <= SampleWidth
               /\ sample_lines[i].text
                      = SubSeq(recent_messages[i], 1, Len(sample_lines[i].text))

C22_Witness ==
    /\ qpc = "built"
    /\ Len(recent_messages) > SampleSize
    /\ \E i \in 1..SampleSize : Len(recent_messages[i]) > SampleWidth
    /\ Len(sample_lines) = SampleSize

\* ==========================================================================
\* Lesson status workflow (backend/app/routers/admin_lessons.py,
\* update_lesson_status), together with the refine endpoint
\* ==========================================================================

\* the members of LessonStatus the routers use, and the one their docstring names
LessonStatus == {"DRAFT", "IN_REVIEW", "PUBLISHED", "ARCHIVED"}

\* datetime.utcnow() and current_user.id as column values
Instant(t) == [k |-> "datetime", at |-> t]
UserId(u) == [k |-> "user", id |-> u]

\* a handler that stamps published_at and reviewed_by whenever the new status is
\* PUBLISHED
update_status_stamping_always(rows, request) ==
    LET lesson == rows[request.lesson_id]
        updated == [lesson EXCEPT !.status = request.status]
        stamped == IF request.status = "PUBLISHED"
                   THEN [updated EXCEPT !.published_at = Instant(request.now),
                                        !.reviewed_by = UserId(request.user_id)]
                   ELSE updated
    IN IF request.lesson_id \notin 1..Len(rows)
       THEN [rows |-> rows,
             response |-> [status_code |-> 404, detail |-> "Lesson not found"]]
       ELSE [rows |-> [rows EXCEPT ![request.lesson_id] = stamped],
             response |-> [status_code |-> 200, lesson |-> stamped]]

\* The status handler: the table after it and the answer
update_status_endpoint(rows, request) ==
    LET lesson == rows[request.lesson_id]
        old_status == lesson.status
        updated == [lesson EXCEPT !.status = request.status]
        stamped == IF request.status = "PUBLISHED" /\ old_status # "PUBLISHED"
                   THEN [updated EXCEPT !.published_at = Instant(request.now),
                                        !.reviewed_by = UserId(request.user_id)]
                   ELSE updated
    IN IF request.lesson_id \notin 1..Len(rows)
       THEN [rows |-> rows,
             response |-> [status_code |-> 404, detail |-> "Lesson not found"]]
       ELSE [rows |-> [rows EXCEPT ![request.lesson_id] = stamped],
             response |-> [status_code |-> 200, lesson |-> stamped]]

Admins == {"admin", "reviewer"}
Instants == {"monday", "tuesday"}

StatusRequests ==
    [lesson_id : 1..(MaxRows + 1), status : LessonStatus, user_id : Admins, now : Instants]

\* the lessons table after one successful generate request
DraftTable ==
    LET request == CHOOSE r \in GenerateRequests :
                       /\ r.files = <<NotesTxt, PlanPdf>> /\ r.ai_model = "anthropic"
                       /\ r.additional_context = None
        outcome == [raised |-> FALSE, content |-> <<Doc(JObj(FullLesson \o Optionals))>>,
                    tokens_used |-> 7]
        uploads == ReceiveUploads(request.files)
        made == generate_lesson_from_documents(request.prompt, uploads.value,
                    request.lesson_type, request.ai_model, request.additional_context,
                    outcome)
    IN generate_endpoint(<<>>, request, outcome, uploads, made).rows

StatusInit ==
    /\ lesson_rows = DraftTable
    /\ l_request = None
    /\ l_before = <<>>
    /\ l_context = <<>>
    /\ l_service = None
    /\ l_response = None
    /\ AnalyticsIdle /\ ParserIdle /\ DocumentsIdle /\ GatewayIdle
    /\ PromptIdle /\ ChatIdle /\ TeamsIdle

\* PATCH /api/admin/lessons/{lesson_id}/status
UpdateLessonStatus ==
    /\ \E request \in StatusRequests :
       \E done \in {update_status_endpoint(lesson_rows, request)} :
          /\ l_request' = [op |-> "status", args |-> request]
          /\ l_before' = lesson_rows
          /\ lesson_rows' = done.rows
          /\ l_context' = <<>>
          /\ l_service' = None
          /\ l_response' = done.response
    /\ UNCHANGED <<analyticsVars, parserVars, docVars, gatewayVars, promptVars, chatVars,
                   teamVars>>

StatusNext == UpdateLessonStatus \/ RefineLesson

SpecStatus == StatusInit /\ [][StatusNext]_vars

-----------------------------------------------------------------------------
(* Claims about the status workflow, checked under SpecStatus *)

SettingStatus == l_request # None /\ l_request.op = "status"
TargetStored == l_request.args.lesson_id \in 1..Len(l_before)

\* the moves of the workflow: forward one stage, to archived, or no move
WorkflowMoves ==
    {<<"DRAFT", "IN_REVIEW">>, <<"IN_REVIEW", "PUBLISHED">>}
    \cup {<<s, "ARCHIVED">> : s \in LessonStatus} \cup {<<s, s>> : s \in LessonStatus}

\* C23: a status request changes the status of a lesson only by a move of the workflow
\* DRAFT -> IN_REVIEW -> PUBLISHED (or to archived): never from DRAFT straight to
\* PUBLISHED, never from PUBLISHED back to DRAFT or IN_REVIEW.
C23_StatusFollowsWorkflow ==
    (SettingStatus /\ TargetStored) =>
        <<TargetBefore.status, TargetAfter.status>> \in WorkflowMoves

\* C24: a refine request for an unknown lesson is answered 404 and one for a lesson
\* that is neither DRAFT nor IN_REVIEW is answered 400, in both cases without a call of
\* the provider and with the table unchanged; a DRAFT or IN_REVIEW lesson is not refused.
C24_RefineOnlyDraftOrReview ==
    Refining =>
        IF ~TargetStored
        THEN l_response.status_code = 404 /\ ~ServiceCalled /\ lesson_rows = l_before
        ELSE IF TargetBefore.status \notin {"DRAFT", "IN_REVIEW"}
        THEN l_response.status_code = 400 /\ ~ServiceCalled /\ lesson_rows = l_before
        ELSE l_response.status_code \notin {400, 404} /\ ServiceCalled

C24_Witness ==
    /\ Refining /\ TargetStored
    /\ TargetBefore.status = "PUBLISHED"
    /\ l_response.status_code = 400
    /\ lesson_rows = l_before

\* C29: a PUBLISHED lesson has published_at and reviewed_by set; a status request
\* writes them exactly when it moves a lesson into PUBLISHED from another status, and
\* every other request (PUBLISHED on a PUBLISHED lesson included) leaves them as they were.
C29_PublishStamps ==
    /\ \A i \in 1..Len(lesson_rows) :
           lesson_rows[i].status = "PUBLISHED" =>
               lesson_rows[i].published_at # None /\ lesson_rows[i].reviewed_by # None
    /\ (l_request # None /\ TargetStored) =>
           IF /\ SettingStatus
              /\ l_request.args.status = "PUBLISHED"
              /\ TargetBefore.status # "PUBLISHED"
           THEN /\ TargetAfter.published_at = Instant(l_request.args.now)
                /\ TargetAfter.reviewed_by = UserId(l_request.args.user_id)
           ELSE /\ TargetAfter.published_at = TargetBefore.published_at
                /\ TargetAfter.reviewed_by = TargetBefore.reviewed_by

C29_Witness ==
    /\ SettingStatus /\ TargetStored
    /\ l_request.args.status = "PUBLISHED"
    /\ TargetBefore.status = "PUBLISHED"
    /\ TargetBefore.reviewed_by # UserId(l_request.args.user_id)
    /\ TargetBefore.published_at # Instant(l_request.args.now)
    /\ TargetAfter.reviewed_by = TargetBefore.reviewed_by
    /\ TargetAfter.published_at = TargetBefore.published_at

-----------------------------------------------------------------------------
(* The upload checks of the generate endpoint, checked under SpecLessons *)

BadUploads ==
    \/ l_request.args.files = <<>>
    \/ \E i \in 1..Len(l_request.args.files) :
           ~is_supported(l_request.args.files[i].filename)

\* C25: a generate request with no file, or with a file of an unsupported extension, is
\* answered 400 without a call of the provider and without a new lesson; a lesson the
\* endpoint creates is stored with status DRAFT.
C25_GenerateRejectsBadUploads ==
    Generating =>
        /\ BadUploads =>
               /\ l_response.status_code = 400
               /\ ~ServiceCalled
               /\ lesson_rows = l_before
        /\ l_response.status_code = 201 =>
               /\ Len(lesson_rows) = Len(l_before) + 1
               /\ lesson_rows[Len(lesson_rows)].status = "DRAFT"

\* the parts of C25 that do not depend on the status code of the refusal
GenerateRefusalHasNoEffect ==
    Generating =>
        /\ BadUploads =>
               /\ l_response.status_code \in {400, 500}
               /\ ~ServiceCalled
               /\ lesson_rows = l_before
        /\ l_response.status_code = 201 =>
               /\ Len(lesson_rows) = Len(l_before) + 1
               /\ lesson_rows[Len(lesson_rows)].status = "DRAFT"

\* ==========================================================================
\* Chat endpoints (backend/app/routers/chat.py) over the tables chat_sessions
\* and messages and the vector store. A handler runs up to its next await as
\* one step; the rows of messages are kept in created_at order, taken to be
\* the order of their commits.
\* ==========================================================================

MaxCalls == 2

Users == {"ann", "bob"}

\* chat_request.message of the c-th call
Question(c) == <<"question", c>>

ChatMessage(role, content) == [role |-> role, content |-> content]

\* the tables, the store and the calls as one value
ChatState ==
    [sessions |-> chat_sessions, messages |-> chat_messages, docs |-> vector_docs,
     calls |-> chat_calls, requests |-> provider_requests]

NoChat == [sessions |-> <<>>, messages |-> <<>>, docs |-> {}, calls |-> <<>>,
           requests |-> <<>>]

\* a lookup by id alone
SessionLookupById(sessions, session_id, user_id) ==
    /\ session_id \in 1..Len(sessions)
    /\ ~sessions[session_id].deleted

\* select(ChatSession).where(ChatSession.id == session_id,
\*                           ChatSession.user_id == current_user.id) finds a row
SessionLookup(sessions, session_id, user_id) ==
    /\ session_id \in 1..Len(sessions)
    /\ ~sessions[session_id].deleted
    /\ sessions[session_id].user_id = user_id

\* the foreign key messages.session_id -> chat_sessions.id
SessionExists(sessions, session_id) ==
    session_id \in 1..Len(sessions) /\ ~sessions[session_id].deleted

\* select(Message).where(Message.session_id == session_id).order_by(created_at)
MessagesOf(messages, session_id) ==
    LET in_session(msg) == msg.session_id = session_id
    IN  SelectSeq(messages, in_session)

\* the role and content of each row
AsDicts(rows) == [i \in 1..Len(rows) |-> ChatMessage(rows[i].role, rows[i].content)]

\* seq[:-1]
AllButLast(seq) == SubSeq(seq, 1, Len(seq) - 1)

NotFound == [status_code |-> 404, detail |-> "Session not found"]

\* ---- send_message, step by step ----

NewCall(request, at, session, response) ==
    [request |-> request, pc |-> at, session |-> session, history |-> <<>>,
     outcome |-> "not called", reply |-> None, response |-> response]

\* "Get or create session"
get_or_create_session(st, request) ==
    IF request.session_id # 0
    THEN IF SessionLookup(st.sessions, request.session_id, request.user_id)
         THEN [st EXCEPT !.calls = Append(@, NewCall(request, "store_user",
                                                     request.session_id, None))]
         ELSE [st EXCEPT !.calls = Append(@, NewCall(request, "done", 0, NotFound))]
    ELSE [st EXCEPT
            !.sessions = Append(@, [user_id |-> request.user_id, is_active |-> TRUE,
                                    completed_at |-> None, deleted |-> FALSE]),
            !.calls = Append(@, NewCall(request, "store_user", Len(st.sessions) + 1,
                                        None))]

\* "Store user message": db.add(user_message); commit
store_user_message(st, c) ==
    LET call == st.calls[c]
    IN IF ~SessionExists(st.sessions, call.session)
       THEN [st EXCEPT !.calls[c].pc = "done",
                       !.calls[c].response = [status_code |-> 500,
                                              detail |-> "Internal Server Error"]]
       ELSE [st EXCEPT
               !.messages = Append(@, [session_id |-> call.session, role |-> "user",
                                       content |-> call.request.message, call |-> c]),
               !.calls[c].pc = "vector_user"]

\* "Store in vector DB"
store_user_vector(st, c) ==
    LET call == st.calls[c]
    IN [st EXCEPT
          !.docs = @ \cup {[collection |-> call.request.user_id,
                            session_id |-> call.session, role |-> "user", call |-> c]},
          !.calls[c].pc = "read_history"]

\* "Get conversation history": all_messages[:-1]
read_history(st, c) ==
    LET call == st.calls[c]
        all_messages == MessagesOf(st.messages, call.session)
    IN [st EXCEPT !.calls[c].history = AsDicts(AllButLast(all_messages)),
                  !.calls[c].pc = "call_provider"]

\* ai_service.generate_agentic_response: the list handed to the provider
AgenticMessages(conversation_history, user_message) ==
    conversation_history \o <<ChatMessage("user", user_message)>>

\* a handler that answers a failed provider call with a stock reply and stores it
call_provider_with_stock_reply(st, c, outcome) ==
    LET call == st.calls[c]
        sent == [call |-> c,
                 messages |-> AgenticMessages(call.history, call.request.message)]
    IN [st EXCEPT !.requests = Append(@, sent),
                  !.calls[c].outcome = outcome,
                  !.calls[c].reply = ChatMessage("assistant", <<"answer", c>>),
                  !.calls[c].pc = "store_reply"]

\* "Generate AI response": the provider call and what it ends with
call_provider(st, c, outcome) ==
    LET call == st.calls[c]
        sent == [call |-> c,
                 messages |-> AgenticMessages(call.history, call.request.message)]
    IN IF outcome = "raise"
       THEN [st EXCEPT !.requests = Append(@, sent),
                       !.calls[c].outcome = outcome,
                       !.calls[c].pc = "done",
                       !.calls[c].response = [status_code |-> 500,
                                              detail |-> "Error generating AI response"]]
       ELSE [st EXCEPT !.requests = Append(@, sent),
                       !.calls[c].outcome = outcome,
                       !.calls[c].reply = ChatMessage("assistant", <<"answer", c>>),
                       !.calls[c].pc = "store_reply"]

\* "Store AI response": db.add(ai_message); commit, inside the try block
store_ai_message(st, c) ==
    LET call == st.calls[c]
    IN IF ~SessionExists(st.sessions, call.session)
       THEN [st EXCEPT !.calls[c].pc = "done",
                       !.calls[c].response = [status_code |-> 500,
                                              detail |-> "Error generating AI response"]]
       ELSE [st EXCEPT
               !.messages = Append(@, [session_id |-> call.session,
                                       role |-> "assistant",
                                       content |-> call.reply.content, call |-> c]),
               !.calls[c].pc = "vector_reply"]

\* "Store AI response in vector DB", and the answer
store_ai_vector(st, c) ==
    LET call == st.calls[c]
    IN [st EXCEPT
          !.docs = @ \cup {[collection |-> call.request.user_id,
                            session_id |-> call.session, role |-> "assistant",
                            call |-> c]},
          !.calls[c].pc = "done",
          !.calls[c].response = [status_code |-> 200, session_id |-> call.session,
                                 message |-> ChatMessage("user", call.request.message),
                                 ai_response |-> call.reply]]

\* ---- the other session endpoints, each one step ----

\* GET /sessions/{session_id}
get_session(st, user_id, session_id) ==
    IF ~SessionLookup(st.sessions, session_id, user_id)
    THEN [state |-> st, response |-> NotFound]
    ELSE [state |-> st,
          response |-> [status_code |-> 200, session |-> st.sessions[session_id]]]

\* GET /sessions/{session_id}/messages
get_session_messages(st, user_id, session_id) ==
    IF ~SessionLookup(st.sessions, session_id, user_id)
    THEN [state |-> st, response |-> NotFound]
    ELSE [state |-> st,
          response |-> [status_code |-> 200,
                        messages |-> AsDicts(MessagesOf(st.messages, session_id))]]

\* DELETE /sessions/{session_id}: the vector documents, the row, and by the cascade
\* of the foreign key its messages
delete_session(st, user_id, session_id) ==
    LET kept_doc(doc) == ~(doc.collection = user_id /\ doc.session_id = session_id)
        kept_row(msg) == msg.session_id # session_id
    IN IF ~SessionLookup(st.sessions, session_id, user_id)
       THEN [state |-> st, response |-> NotFound]
       ELSE [state |-> [st EXCEPT
                          !.docs = {doc \in @ : kept_doc(doc)},
                          !.sessions[session_id].deleted = TRUE,
                          !.messages = SelectSeq(@, kept_row)],
             response |-> [status_code |-> 204]]

\* POST /sessions/{session_id}/complete
complete_session(st, user_id, session_id) ==
    LET completed == [st.sessions[session_id] EXCEPT
                        !.is_active = FALSE, !.completed_at = Instant("now")]
    IN IF ~SessionLookup(st.sessions, session_id, user_id)
       THEN [state |-> st, response |-> NotFound]
       ELSE [state |-> [st EXCEPT !.sessions[session_id] = completed],
             response |-> [status_code |-> 200, session |-> completed]]

-----------------------------------------------------------------------------
(* Interleaved send_message calls *)

ChatRequests(c) ==
    [user_id : Users, session_id : 0..(Len(chat_sessions) + 1), message : {Question(c)}]

ProviderOutcomes == {"reply", "raise"}

OthersIdleForChat ==
    /\ AnalyticsIdle /\ ParserIdle /\ DocumentsIdle /\ GatewayIdle /\ LessonsIdle
    /\ PromptIdle /\ TeamsIdle

ChatUnchanged ==
    UNCHANGED <<analyticsVars, parserVars, docVars, gatewayVars, lessonVars, promptVars,
                teamVars>>

Becomes(st) ==
    /\ chat_sessions' = st.sessions
    /\ chat_messages' = st.messages
    /\ vector_docs' = st.docs
    /\ chat_calls' = st.calls
    /\ provider_requests' = st.requests

ChatInit ==
    /\ chat_sessions = <<>> /\ chat_messages = <<>> /\ vector_docs = {}
    /\ chat_calls = <<>> /\ provider_requests = <<>> /\ chat_answer = None
    /\ OthersIdleForChat

At(c, at) == c \in 1..Len(chat_calls) /\ chat_calls[c].pc = at

\* POST /message arrives
SendMessage ==
    /\ Len(chat_calls) < MaxCalls
    /\ \E request \in ChatRequests(Len(chat_calls) + 1) :
       \E st \in {get_or_create_session(ChatState, request)} : Becomes(st)
    /\ UNCHANGED chat_answer /\ ChatUnchanged

StoreUserMessage ==
    /\ \E c \in 1..Len(chat_calls) :
          /\ At(c, "store_user")
          /\ \E st \in {store_user_message(ChatState, c)} : Becomes(st)
    /\ UNCHANGED chat_answer /\ ChatUnchanged

StoreUserVector ==
    /\ \E c \in 1..Len(chat_calls) :
          /\ At(c, "vector_user")
          /\ \E st \in {store_user_vector(ChatState, c)} : Becomes(st)
    /\ UNCHANGED chat_answer /\ ChatUnchanged

ReadHistory ==
    /\ \E c \in 1..Len(chat_calls) :
          /\ At(c, "read_history")
          /\ \E st \in {read_history(ChatState, c)} : Becomes(st)
    /\ UNCHANGED chat_answer /\ ChatUnchanged

CallProvider ==
    /\ \E c \in 1..Len(chat_calls), outcome \in ProviderOutcomes :
          /\ At(c, "call_provider")
          /\ \E st \in {call_provider(ChatState, c, outcome)} : Becomes(st)
    /\ UNCHANGED chat_answer /\ ChatUnchanged

StoreAIMessage ==
    /\ \E c \in 1..Len(chat_calls) :
          /\ At(c, "store_reply")
          /\ \E st \in {store_ai_message(ChatState, c)} : Becomes(st)
    /\ UNCHANGED chat_answer /\ ChatUnchanged

StoreAIVector ==
    /\ \E c \in 1..Len(chat_calls) :
          /\ At(c, "vector_reply")
          /\ \E st \in {store_ai_vector(ChatState, c)} : Becomes(st)
    /\ UNCHANGED chat_answer /\ ChatUnchanged

ChatNext ==
    \/ SendMessage \/ StoreUserMessage \/ StoreUserVector \/ ReadHistory
    \/ CallProvider \/ StoreAIMessage \/ StoreAIVector

SpecChat == ChatInit /\ [][ChatNext]_vars

-----------------------------------------------------------------------------
(* Claims about send_message, checked under SpecChat *)

\* where the user message of call c stands in the table
OwnRow(c) ==
    CHOOSE i \in 1..Len(chat_messages) :
        chat_messages[i].call = c /\ chat_messages[i].role = "user"

\* the messages of the session of call c stored before its own user message
EarlierMessages(c) ==
    AsDicts(MessagesOf(SubSeq(chat_messages, 1, OwnRow(c) - 1), chat_calls[c].session))

\* C26: the list a send_message call hands to the provider is the messages stored in
\* its session before its own user message, in order, followed by that user message,
\* which stands last and occurs once, also when calls on a session interleave.
C26_HistoryThenCurrentOnce ==
    \A n \in 1..Len(provider_requests) :
        LET sent == provider_requests[n].messages
            c == provider_requests[n].call
            current == ChatMessage("user", Question(c))
        IN /\ sent[Len(sent)] = current
           /\ Cardinality({i \in 1..Len(sent) : sent[i] = current}) = 1
           /\ AllButLast(sent) = EarlierMessages(c)

SessionRows(session_id, role) ==
    {i \in 1..Len(chat_messages) :
        chat_messages[i].session_id = session_id /\ chat_messages[i].role = role}

ProviderCalled(c) == \E n \in 1..Len(provider_requests) : provider_requests[n].call = c

ProviderFailed(c) == ProviderCalled(c) /\ chat_calls[c].outcome = "raise"

\* C28: a session never holds more assistant messages than user messages; an assistant
\* message stands after the user message of its own call; a call whose provider call
\* failed has its user message stored and no assistant message.
C28_AssistantFollowsUser ==
    /\ \A s \in 1..Len(chat_sessions) :
           Cardinality(SessionRows(s, "assistant")) <= Cardinality(SessionRows(s, "user"))
    /\ \A j \in 1..Len(chat_messages) :
           chat_messages[j].role = "assistant" =>
               \E i \in 1..(j - 1) :
                   /\ chat_messages[i].role = "user"
                   /\ chat_messages[i].call = chat_messages[j].call
                   /\ chat_messages[i].session_id = chat_messages[j].session_id
    /\ \A c \in 1..Len(chat_calls) :
           ProviderFailed(c) =>
               /\ chat_calls[c].pc = "done"
               /\ chat_calls[c].response.status_code = 500
               /\ \E i \in SessionRows(chat_calls[c].session, "user") :
                      chat_messages[i].call = c
               /\ \A i \in SessionRows(chat_calls[c].session, "assistant") :
                      chat_messages[i].call # c

C28_Witness ==
    \E c, d \in 1..Len(chat_calls) :
        /\ ProviderFailed(c)
        /\ chat_calls[d].session = chat_calls[c].session
        /\ chat_calls[d].pc = "done" /\ chat_calls[d].reply # None
        /\ Cardinality(SessionRows(chat_calls[c].session, "user")) = 2
        /\ Cardinality(SessionRows(chat_calls[c].session, "assistant")) = 1

-----------------------------------------------------------------------------
(* The session endpoints beside a send_message call, on tables that already hold
   one conversation *)

SessionOps == {"get", "messages", "delete", "complete"}

Handle(op, st, user_id, session_id) ==
    CASE op = "get" -> get_session(st, user_id, session_id)
      [] op = "messages" -> get_session_messages(st, user_id, session_id)
      [] op = "delete" -> delete_session(st, user_id, session_id)
      [] op = "complete" -> complete_session(st, user_id, session_id)

\* one request to a session endpoint, answered
SessionOperation(op, user_id, session_id) ==
    /\ \E done \in {Handle(op, ChatState, user_id, session_id)} :
          /\ Becomes(done.state)
          /\ chat_answer' = [op |-> op, user_id |-> user_id, session_id |-> session_id,
                             response |-> done.response]
    /\ ChatUnchanged

\* POST /message by user_id with session_id arrives
SendMessageBy(user_id, session_id) ==
    /\ Len(chat_calls) < MaxCalls
    /\ Becomes(get_or_create_session(ChatState,
                   [user_id |-> user_id, session_id |-> session_id,
                    message |-> Question(Len(chat_calls) + 1)]))
    /\ UNCHANGED chat_answer /\ ChatUnchanged

SessionIds == 1..(Len(chat_sessions) + 1)

GetSession == \E u \in Users, sid \in SessionIds : SessionOperation("get", u, sid)

GetSessionMessages ==
    \E u \in Users, sid \in SessionIds : SessionOperation("messages", u, sid)

DeleteSession == \E u \in Users, sid \in SessionIds : SessionOperation("delete", u, sid)

CompleteSession ==
    \E u \in Users, sid \in SessionIds : SessionOperation("complete", u, sid)

\* the tables after n send_message calls of ann, one after the other, have returned:
\* the first without session_id, the others on the session it created
RECURSIVE Conversation(_)
Conversation(n) ==
    IF n = 0 THEN NoChat
    ELSE LET request == [user_id |-> "ann", session_id |-> IF n = 1 THEN 0 ELSE 1,
                         message |-> Question(n)]
             created == get_or_create_session(Conversation(n - 1), request)
             stored == store_user_vector(store_user_message(created, n), n)
             answered == call_provider(read_history(stored, n), n, "reply")
         IN store_ai_vector(store_ai_message(answered, n), n)

SessionsInit ==
    /\ \E st \in {Conversation(MaxCalls - 1)} :
          /\ chat_sessions = st.sessions
          /\ chat_messages = st.messages
          /\ vector_docs = st.docs
          /\ chat_calls = st.calls
          /\ provider_requests = st.requests
    /\ chat_answer = None
    /\ OthersIdleForChat

SessionsNext ==
    \/ GetSession \/ GetSessionMessages \/ DeleteSession \/ CompleteSession
    \/ SendMessage \/ StoreUserMessage \/ StoreUserVector \/ ReadHistory
    \/ CallProvider \/ StoreAIMessage \/ StoreAIVector

SpecSessions == SessionsInit /\ [][SessionsNext]_vars

-----------------------------------------------------------------------------
(* Claims about session ownership, checked under SpecSessions *)

DocsOf(docs, session_id) == {doc \in docs : doc.session_id = session_id}

\* the step leaves the row of the session, its messages and its documents as they were
Untouched(session_id) ==
    /\ session_id \in 1..Len(chat_sessions')
    /\ chat_sessions'[session_id] = chat_sessions[session_id]
    /\ MessagesOf(chat_messages', session_id) = MessagesOf(chat_messages, session_id)
    /\ DocsOf(vector_docs', session_id) = DocsOf(vector_docs, session_id)

OwnedByAnother(user_id, session_id) ==
    /\ SessionExists(chat_sessions, session_id)
    /\ chat_sessions[session_id].user_id # user_id

\* C27: a request of a user who does not own the session (get, messages, delete,
\* complete, or send_message with its session_id) is answered 404 "Session not found",
\* with nothing of the session in the answer, and leaves the session row, its messages
\* and its vector documents unchanged.
C27_OnlyOwnerReaches ==
    [][\A u \in Users, sid \in 1..Len(chat_sessions) :
          OwnedByAnother(u, sid) =>
              /\ \A op \in SessionOps :
                     SessionOperation(op, u, sid) =>
                         chat_answer'.response = NotFound /\ Untouched(sid)
              /\ SendMessageBy(u, sid) =>
                     /\ chat_calls'[Len(chat_calls')].response = NotFound
                     /\ chat_calls'[Len(chat_calls')].pc = "done"
                     /\ Untouched(sid)]_vars

C27_Witness ==
    /\ chat_answer # None
    /\ chat_answer.op = "delete"
    /\ chat_answer.user_id = "bob"
    /\ SessionExists(chat_sessions, chat_answer.session_id)
    /\ chat_sessions[chat_answer.session_id].user_id = "ann"
    /\ chat_answer.response = NotFound
    /\ Len(MessagesOf(chat_messages, chat_answer.session_id)) >= 2
    /\ DocsOf(vector_docs, chat_answer.session_id) # {}
    /\ \E c \in 1..Len(chat_calls) :
           /\ chat_calls[c].request.user_id = "bob"
           /\ chat_calls[c].request.session_id = chat_answer.session_id
           /\ chat_calls[c].response = NotFound

\* ==========================================================================
\* Team membership (backend/app/routers/teams.py, add_team_member) over the
\* association table user_teams, which has neither a primary key nor a unique
\* constraint. A handler runs up to its next await as one step.
\* ==========================================================================

MaxAdds == 2

StoredTeams == {"sales"}
StoredUsers == {"ann", "cleo"}

\* create_team: the row that makes the creator a member of the new team
CreatorRow(team_id, user_id) ==
    [user_id |-> user_id, team_id |-> team_id, role |-> "admin", call |-> 0]

\* select(user_teams).where(team_id == ..., user_id == ...).first() finds a row
IsMember(rows, team_id, user_id) ==
    \E i \in 1..Len(rows) : rows[i].team_id = team_id /\ rows[i].user_id = user_id

TeamRequests ==
    [team_id : StoredTeams \cup {"no such team"},
     user_id : StoredUsers \cup {"no such user"}, role : {"member"}]

TeamCall(request, at, response) == [request |-> request, pc |-> at, response |-> response]

\* "Verify team exists"
verify_team(request) ==
    IF request.team_id \notin StoredTeams
    THEN TeamCall(request, "done", [status_code |-> 404, detail |-> "Team not found"])
    ELSE TeamCall(request, "verify_user", None)

\* "Verify user exists"
verify_user(call) ==
    IF call.request.user_id \notin StoredUsers
    THEN [call EXCEPT !.pc = "done",
                      !.response = [status_code |-> 404, detail |-> "User not found"]]
    ELSE [call EXCEPT !.pc = "check_member"]

\* "Check if already a member"
check_member(rows, call) ==
    IF IsMember(rows, call.request.team_id, call.request.user_id)
    THEN [call EXCEPT !.pc = "done",
                      !.response = [status_code |-> 400,
                                    detail |-> "User is already a member"]]
    ELSE [call EXCEPT !.pc = "insert"]

\* "Add member": user_teams.insert().values(...); commit
insert_member(rows, call, c) ==
    [rows |-> Append(rows, [user_id |-> call.request.user_id,
                            team_id |-> call.request.team_id,
                            role |-> call.request.role, call |-> c]),
     call |-> [call EXCEPT !.pc = "done",
                           !.response = [status_code |-> 201,
                                         message |-> "Member added successfully"]]]

TeamsUnchanged ==
    UNCHANGED <<analyticsVars, parserVars, docVars, gatewayVars, lessonVars, promptVars,
                chatVars>>

\* the team "sales" as cleo created it
TeamsInit ==
    /\ user_teams = <<CreatorRow("sales", "cleo")>>
    /\ team_calls = <<>>
    /\ AnalyticsIdle /\ ParserIdle /\ DocumentsIdle /\ GatewayIdle /\ LessonsIdle
    /\ PromptIdle /\ ChatIdle

TeamAt(c, at) == team_calls[c].pc = at

\* POST /api/teams/{team_id}/members arrives
AddTeamMember ==
    /\ Len(team_calls) < MaxAdds
    /\ \E request \in TeamRequests : team_calls' = Append(team_calls, verify_team(request))
    /\ UNCHANGED user_teams /\ TeamsUnchanged

VerifyUser ==
    /\ \E c \in 1..Len(team_calls) :
          /\ TeamAt(c, "verify_user")
          /\ team_calls' = [team_calls EXCEPT ![c] = verify_user(@)]
    /\ UNCHANGED user_teams /\ TeamsUnchanged

CheckMember ==
    /\ \E c \in 1..Len(team_calls) :
          /\ TeamAt(c, "check_member")
          /\ team_calls' = [team_calls EXCEPT ![c] = check_member(user_teams, @)]
    /\ UNCHANGED user_teams /\ TeamsUnchanged

InsertMember ==
    /\ \E c \in 1..Len(team_calls) :
          /\ TeamAt(c, "insert")
          /\ \E done \in {insert_member(user_teams, team_calls[c], c)} :
                /\ user_teams' = done.rows
                /\ team_calls' = [team_calls EXCEPT ![c] = done.call]
    /\ TeamsUnchanged

TeamsNext == AddTeamMember \/ VerifyUser \/ CheckMember \/ InsertMember

SpecTeams == TeamsInit /\ [][TeamsNext]_vars

-----------------------------------------------------------------------------
(* Claims about team membership, checked under SpecTeams *)

\* C30: whatever the interleaving of add_team_member calls, no (user, team) pair
\* stands in user_teams more than once; a call that finds the member already there
\* is answered 400 and has added no row.
C30_MembershipUnique ==
    /\ \A i, j \in 1..Len(user_teams) :
           (user_teams[i].user_id = user_teams[j].user_id
            /\ user_teams[i].team_id = user_teams[j].team_id) => i = j
    /\ \A c \in 1..Len(team_calls) :
           (team_calls[c].pc = "done" /\ team_calls[c].response.status_code = 400) =>
               \A i \in 1..Len(user_teams) : user_teams[i].call # c

\* the second half of C30 alone, with the existing row unchanged
DuplicateRefused ==
    \A c \in 1..Len(team_calls) :
        (team_calls[c].pc = "done" /\ team_calls[c].response.status_code = 400) =>
            /\ IsMember(user_teams, team_calls[c].request.team_id,
                        team_calls[c].request.user_id)
            /\ \A i \in 1..Len(user_teams) : user_teams[i].call # c

====
